---- MODULE Spec2Model ----
(***************************************************************************)
(* A model of the RESP server: the RESP codec (resp_parser.rs), the        *)
(* command parser (resp_command.rs) and the per-connection request loop    *)
(* with the shared keyspace (redis_handler.rs, main.rs).                   *)
(*                                                                         *)
(* Bytes are integers 0..255 and byte strings are sequences of them.       *)
(***************************************************************************)
EXTENDS Integers, Sequences, FiniteSets, TLC

(***************************************************************************)
(* Bounds of the model.                                                    *)
(***************************************************************************)
\* The wall clock runs from 0 to MaxTime (milliseconds).
MaxTime == 2
\* Socket reads that complete, over all connections.
MaxReads == 2
\* Socket writes that fail, over all connections.
MaxWriteFails == 1
\* Longest digit string parse_integer is applied to (TLC integers are 32 bit).
MaxDigits == 6
\* The entries of a keyspace handed to a separate handle_request call.
MaxKeys == 2
\* Stand-in for the 64 of u64: `n as u64` is n modulo 2^U64Bits.
U64Bits == 12

(***************************************************************************)
(* Byte constants and byte strings.                                        *)
(***************************************************************************)
CR == 13
LF == 10
SEPARATOR == <<CR, LF>>

PLUS == 43
MINUS == 45
COLON == 58
DOLLAR == 36
STAR == 42
ZERO == 48

B_PING == <<80, 73, 78, 71>>
B_ECHO == <<69, 67, 72, 79>>
B_SET == <<83, 69, 84>>
B_GET == <<71, 69, 84>>
B_CONFIG == <<67, 79, 78, 70, 73, 71>>
B_KEYS == <<75, 69, 89, 83>>
B_INFO == <<73, 78, 70, 79>>
B_PX == <<80, 88>>
B_PONG == <<80, 79, 78, 71>>
B_OK == <<79, 75>>
B_STAR == <<STAR>>
\* "replication"
B_replication == <<114, 101, 112, 108, 105, 99, 97, 116, 105, 111, 110>>
\* "dir", "port", "/tmp", "6379"
B_dir == <<100, 105, 114>>
B_port == <<112, 111, 114, 116>>
B_tmp == <<47, 116, 109, 112>>
B_6379 == <<54, 51, 55, 57>>

(***************************************************************************)
(* RespValue: one record shape for the seven variants.  `v` is the byte    *)
(* payload, `n` the integer, `vals` the children of an Array.              *)
(***************************************************************************)
SimpleString(b) == [t |-> "SimpleString", v |-> b, n |-> 0, vals |-> <<>>]
SimpleError(b) == [t |-> "SimpleError", v |-> b, n |-> 0, vals |-> <<>>]
SimpleInteger(i) == [t |-> "SimpleInteger", v |-> <<>>, n |-> i, vals |-> <<>>]
BulkString(b) == [t |-> "BulkString", v |-> b, n |-> 0, vals |-> <<>>]
NullBulkString == [t |-> "NullBulkString", v |-> <<>>, n |-> 0, vals |-> <<>>]
Array(vs) == [t |-> "Array", v |-> <<>>, n |-> 0, vals |-> vs]
NullArray == [t |-> "NullArray", v |-> <<>>, n |-> 0, vals |-> <<>>]

Range(f) == {f[i] : i \in DOMAIN f}

(***************************************************************************)
(* Decimal formatting (to_string / format!("{}")) of an integer.           *)
(***************************************************************************)
RECURSIVE NatToDec(_)
NatToDec(n) ==
    IF n < 10 THEN <<ZERO + n>>
    ELSE NatToDec(n \div 10) \o <<ZERO + (n % 10)>>

\* A mutant of to_string: the sign is dropped.
to_string_unsigned(i) == IF i < 0 THEN NatToDec(-i) ELSE NatToDec(i)

to_string(i) == IF i < 0 THEN <<MINUS>> \o NatToDec(-i) ELSE NatToDec(i)

(***************************************************************************)
(* RespValue::write: the canonical bytes of a value.                       *)
(***************************************************************************)
RECURSIVE write(_)
RECURSIVE write_all_vals(_)
write_all_vals(vals) ==
    IF vals = <<>> THEN <<>>
    ELSE write(Head(vals)) \o write_all_vals(Tail(vals))

write(val) ==
    CASE val.t = "SimpleString" -> <<PLUS>> \o val.v \o SEPARATOR
      [] val.t = "SimpleError" -> <<MINUS>> \o val.v \o SEPARATOR
      [] val.t = "SimpleInteger" -> <<COLON>> \o to_string(val.n) \o SEPARATOR
      [] val.t = "BulkString" ->
            <<DOLLAR>> \o to_string(Len(val.v)) \o SEPARATOR \o val.v \o SEPARATOR
      [] val.t = "NullBulkString" -> <<DOLLAR, MINUS, ZERO + 1, CR, LF>>
      [] val.t = "Array" ->
            <<STAR>> \o to_string(Len(val.vals)) \o SEPARATOR \o write_all_vals(val.vals)
      [] val.t = "NullArray" -> <<STAR, MINUS, ZERO + 1, CR, LF>>

(***************************************************************************)
(* Results of the parsers: Ok carries a value and the remainder of the     *)
(* input, Err an error kind with its integer payload.  "Panic" is the      *)
(* outcome of a Rust panic (the task unwinds).                             *)
(***************************************************************************)
NoValue == NullArray
Ok(value, remainder) ==
    [ok |-> TRUE, value |-> value, remainder |-> remainder, err |-> "", n |-> 0]
Err(kind, i) ==
    [ok |-> FALSE, value |-> NoValue, remainder |-> <<>>, err |-> kind, n |-> i]

\* `let x = e; F(x)`: e is evaluated once and F applied to its value.
Once(e, F(_)) == CHOOSE y \in {F(x) : x \in {e}} : TRUE

\* The `?` operator: an Err is returned at once, an Ok value goes on to Then.
Try(r, Then(_)) == Once(r, LAMBDA x : IF x.ok THEN Then(x) ELSE x)

\* memmem::Finder::find: the first position (0-based) of CR LF in input, or -1.
RECURSIVE find_from(_, _)
find_from(input, i) ==
    IF i + 1 > Len(input) - 1 THEN -1
    ELSE IF input[i + 1] = CR /\ input[i + 2] = LF THEN i
    ELSE find_from(input, i + 1)

find(input) == find_from(input, 0)

\* &input[from..to] with 0-based, end-exclusive bounds.
Slice(input, from, to) == SubSeq(input, from + 1, to)

\* RespParser::next_word
next_word(input) ==
    Once(find(input), LAMBDA separator_pos :
        IF separator_pos >= 0
        THEN [ok |-> TRUE, word |-> Slice(input, 0, separator_pos),
              remainder |-> Slice(input, separator_pos + 2, Len(input))]
        ELSE [ok |-> FALSE, word |-> <<>>, remainder |-> <<>>])

IsDigit(b) == b >= ZERO /\ b <= ZERO + 9

RECURSIVE DigitsValue(_, _)
DigitsValue(ds, acc) ==
    IF ds = <<>> THEN acc
    ELSE DigitsValue(Tail(ds), acc * 10 + (Head(ds) - ZERO))

\* Decimal digit strings of the limits that matter beyond MaxDigits digits:
\* i64::MAX, the magnitude of i64::MIN, and isize::MAX / 24 on a 64-bit target.
\* A RespValue holds a Vec (24 bytes) in one variant, so it is at least 24 bytes.
I64_MAX_DIGITS ==
    <<57, 50, 50, 51, 51, 55, 50, 48, 51, 54, 56, 53, 52, 55, 55, 53, 56, 48, 55>>
I64_MIN_DIGITS ==
    <<57, 50, 50, 51, 51, 55, 50, 48, 51, 54, 56, 53, 52, 55, 55, 53, 56, 48, 56>>
CAPACITY_DIGITS ==
    <<51, 56, 52, 51, 48, 55, 49, 54, 56, 50, 48, 50, 50, 56, 50, 51, 50, 53>>

RECURSIVE StripZeros(_)
StripZeros(ds) ==
    IF Len(ds) > 1 /\ Head(ds) = ZERO THEN StripZeros(Tail(ds)) ELSE ds

\* a <= b for digit strings of one length.
RECURSIVE DecLeq(_, _)
DecLeq(a, b) ==
    IF a = <<>> THEN TRUE
    ELSE IF Head(a) < Head(b) THEN TRUE
    ELSE IF Head(a) > Head(b) THEN FALSE
    ELSE DecLeq(Tail(a), Tail(b))

\* a > limit for digit strings without leading zeros.
Exceeds(a, limit) ==
    Len(a) > Len(limit) \/ (Len(a) = Len(limit) /\ ~DecLeq(a, limit))

RECURSIVE Pow10(_)
Pow10(k) == IF k = 0 THEN 1 ELSE 10 * Pow10(k - 1)

\* i64::from_str_radix(_, 10) on the bytes (std::str::from_utf8 first): an optional
\* sign, then at least one digit and digits only; a number outside i64 is an
\* error.  A number of more than MaxDigits significant digits is kept by its
\* digits (`big`), and `n` is then its sign times 10^MaxDigits.
parse_integer(input) ==
    LET signed == input /= <<>> /\ Head(input) \in {PLUS, MINUS}
        negative == signed /\ Head(input) = MINUS
        digits == IF signed THEN Tail(input) ELSE input
    IN  IF digits = <<>> \/ \E i \in 1..Len(digits) : ~IsDigit(digits[i])
        THEN [ok |-> FALSE, n |-> 0, big |-> FALSE, digits |-> <<>>]
        ELSE LET significant == StripZeros(digits) IN
             IF Len(significant) <= MaxDigits
             THEN [ok |-> TRUE,
                   n |-> IF negative THEN -DigitsValue(significant, 0)
                         ELSE DigitsValue(significant, 0),
                   big |-> FALSE, digits |-> significant]
             ELSE IF Exceeds(significant,
                             IF negative THEN I64_MIN_DIGITS ELSE I64_MAX_DIGITS)
             THEN [ok |-> FALSE, n |-> 0, big |-> FALSE, digits |-> <<>>]
             ELSE [ok |-> TRUE,
                   n |-> IF negative THEN -Pow10(MaxDigits) ELSE Pow10(MaxDigits),
                   big |-> TRUE, digits |-> significant]

(***************************************************************************)
(* RespParser: next_value, parse_bulk_string, parse_array, get_values.     *)
(***************************************************************************)
RECURSIVE next_value(_)
RECURSIVE parse_array_loop(_, _, _)

\* RespParser::parse_bulk_string.  `remainder.len() - 2` is a usize subtraction:
\* with fewer than 2 bytes left a debug build panics on the overflow, and a release
\* build wraps to a number no i64 size exceeds and then panics on the slice
\* remainder[size..size + 2], which lies outside the buffer.
parse_bulk_string(input, remainder) ==
    Once(parse_integer(input), LAMBDA size :
        IF ~size.ok THEN Err("IntParseFailure", 0)
        ELSE IF size.n < -1 THEN Err("BadBulkStringSize", size.n)
        ELSE IF size.n = -1 THEN Ok(NullBulkString, remainder)
        ELSE IF Len(remainder) < 2 THEN Err("Panic", 0)
        ELSE IF size.n > Len(remainder) - 2 THEN Err("UnexpectedEnd", 0)
        ELSE IF Slice(remainder, size.n, size.n + 2) /= SEPARATOR
             THEN Err("BadBulkStringSize", size.n)
        ELSE Ok(BulkString(Slice(remainder, 0, size.n)),
                Slice(remainder, size.n + 2, Len(remainder))))

\* The for loop of parse_array: `left` children still to parse.
parse_array_loop(left, curr_remainder, vals) ==
    IF left = 0 THEN Ok(Array(vals), curr_remainder)
    ELSE Once(next_value(curr_remainder), LAMBDA step :
            IF ~step.ok THEN step
            ELSE parse_array_loop(left - 1, step.remainder, Append(vals, step.value)))

\* RespParser::parse_array.  Vec::with_capacity(size as usize) panics with
\* "capacity overflow" when the bytes asked for exceed isize::MAX, which holds in
\* every build for more than isize::MAX / 24 elements; a smaller allocation is
\* taken to succeed.
parse_array(input, remainder) ==
    Once(parse_integer(input), LAMBDA size :
        IF ~size.ok THEN Err("IntParseFailure", 0)
        ELSE IF size.n < -1 THEN Err("BadArraySize", size.n)
        ELSE IF size.n = -1 THEN Ok(NullArray, remainder)
        ELSE IF size.big /\ Exceeds(size.digits, CAPACITY_DIGITS) THEN Err("Panic", 0)
        ELSE parse_array_loop(size.n, remainder, <<>>))

\* RespParser::next_value
next_value(input) ==
    Once(next_word(input), LAMBDA w :
        IF ~w.ok THEN Err("UnexpectedEnd", 0)
        ELSE IF Len(w.word) = 0 THEN Err("UnexpectedEnd", 0)
        ELSE LET rest == Tail(w.word) IN
             CASE w.word[1] = PLUS -> Ok(SimpleString(rest), w.remainder)
               [] w.word[1] = MINUS -> Ok(SimpleError(rest), w.remainder)
               [] w.word[1] = COLON ->
                    Once(parse_integer(rest), LAMBDA i :
                        IF i.ok THEN Ok(SimpleInteger(i.n), w.remainder)
                        ELSE Err("IntParseFailure", 0))
               [] w.word[1] = DOLLAR -> parse_bulk_string(rest, w.remainder)
               [] w.word[1] = STAR -> parse_array(rest, w.remainder)
               [] OTHER -> Err("UnknownStartingByte", w.word[1]))

\* A mutant of get_values_loop: the loop stops after the first value.
get_values_loop_once(curr_remainder, resp_values) ==
    Once(next_value(curr_remainder), LAMBDA step :
        IF ~step.ok THEN [ok |-> FALSE, values |-> <<>>, err |-> step.err, n |-> step.n]
        ELSE [ok |-> TRUE, values |-> Append(resp_values, step.value),
              err |-> "", n |-> 0])

\* The while loop of get_values.  The result is [ok, values, err, n].
RECURSIVE get_values_loop(_, _)
get_values_loop(curr_remainder, resp_values) ==
    IF curr_remainder = <<>>
    THEN [ok |-> TRUE, values |-> resp_values, err |-> "", n |-> 0]
    ELSE Once(next_value(curr_remainder), LAMBDA step :
            IF ~step.ok
            THEN [ok |-> FALSE, values |-> <<>>, err |-> step.err, n |-> step.n]
            ELSE get_values_loop(step.remainder, Append(resp_values, step.value)))

\* RespParser::get_values
get_values(input) ==
    IF Len(input) = 0 THEN [ok |-> TRUE, values |-> <<>>, err |-> "", n |-> 0]
    ELSE get_values_loop(input, <<>>)

(***************************************************************************)
(* RedisRequest and the command parser (resp_command.rs).                  *)
(*                                                                         *)
(* One record shape for the variants: `key` is the byte argument (the      *)
(* contents of Echo, the key of Set/Get, the pattern of Keys, the section  *)
(* of Info(Some)), `some` tells Info(Some) from Info(None).  `px` is a     *)
(* history field: the PX argument the deadline was computed from.          *)
(***************************************************************************)
NoExpiration == -1

Request(cmd) ==
    [cmd |-> cmd, key |-> <<>>, value |-> <<>>, expiration |-> NoExpiration,
     px |-> 0, some |-> FALSE, params |-> <<>>]

Ping == Request("Ping")
Echo(contents) == [Request("Echo") EXCEPT !.key = contents]
Set(key, value, expiration, px) ==
    [Request("Set") EXCEPT !.key = key, !.value = value,
                           !.expiration = expiration, !.px = px]
Get(key) == [Request("Get") EXCEPT !.key = key]
ConfigGet(params) == [Request("ConfigGet") EXCEPT !.params = params]
Keys(pattern) == [Request("Keys") EXCEPT !.key = pattern]
InfoNone == Request("Info")
InfoSome(info_type) == [Request("Info") EXCEPT !.key = info_type, !.some = TRUE]

\* Result<RedisRequest, RedisError>: `err` is the RedisError variant, `sub` the
\* RespError inside RespParseError, `n` its integer payload.
CmdOk(request) == [ok |-> TRUE, request |-> request, err |-> "", sub |-> "", n |-> 0]
CmdErr(kind, sub, i) ==
    [ok |-> FALSE, request |-> Ping, err |-> kind, sub |-> sub, n |-> i]

\* A mutant of uppercase: the bytes as they are.
uppercase_as_is(value) == value

\* u8::to_ascii_uppercase over the bytes.
uppercase(value) ==
    [i \in 1..Len(value) |->
        IF value[i] >= 97 /\ value[i] <= 122 THEN value[i] - 32 ELSE value[i]]

RECURSIVE Pow2(_)
Pow2(k) == IF k = 0 THEN 1 ELSE 2 * Pow2(k - 1)

\* `n as u64` of an i64: the two's complement reinterpretation, which leaves
\* n >= 0 as it is and adds 2^64 to n < 0; the width is U64Bits here.
as_u64(n) == IF n >= 0 THEN n ELSE n + Pow2(U64Bits)

\* std::str::from_utf8(..).is_ok(): the bytes are well-formed UTF-8.
IsContinuation(b) == b >= 128 /\ b <= 191
RECURSIVE Utf8Valid(_)
Utf8Valid(bytes) ==
    IF bytes = <<>> THEN TRUE
    ELSE LET b == bytes[1]
             width == IF b <= 127 THEN 1
                      ELSE IF b >= 194 /\ b <= 223 THEN 2
                      ELSE IF b >= 224 /\ b <= 239 THEN 3
                      ELSE IF b >= 240 /\ b <= 244 THEN 4
                      ELSE 0
         IN  /\ width > 0
             /\ Len(bytes) >= width
             /\ \A i \in 2..width : IsContinuation(bytes[i])
             /\ b = 224 => bytes[2] >= 160
             /\ b = 237 => bytes[2] <= 159
             /\ b = 240 => bytes[2] >= 144
             /\ b = 244 => bytes[2] <= 143
             /\ Utf8Valid(SubSeq(bytes, width + 1, Len(bytes)))

\* A mutant of the free parse_integer: bytes that are no UTF-8 count as no integer.
parse_integer_utils_no_utf8_error(input) ==
    Once(parse_integer(input), LAMBDA i :
        [ok |-> i.ok, n |-> i.n, err |-> IF i.ok THEN "" ELSE "IntParseFailure"])

\* The free function parse_integer (utils.rs), which parse_expiration calls:
\* from_utf8(input)? gives StringParseFailure, from_str_radix(_, 10)? gives
\* IntParseFailure.
parse_integer_utils(input) ==
    IF ~Utf8Valid(input) THEN [ok |-> FALSE, n |-> 0, err |-> "StringParseFailure"]
    ELSE Once(parse_integer(input), LAMBDA i :
            [ok |-> i.ok, n |-> i.n, err |-> IF i.ok THEN "" ELSE "IntParseFailure"])

\* A mutant of parse_expiration: the deadline is a millisecond later.
parse_expiration_late(expiration_type, expiration_value, now) ==
    IF uppercase(expiration_type) = B_PX
    THEN Once(parse_integer_utils(expiration_value), LAMBDA i :
            IF i.ok THEN [ok |-> TRUE, at |-> now + as_u64(i.n) + 1, px |-> i.n,
                          err |-> "", sub |-> ""]
            ELSE [ok |-> FALSE, at |-> 0, px |-> 0,
                  err |-> "RespParseError", sub |-> i.err])
    ELSE [ok |-> FALSE, at |-> 0, px |-> 0, err |-> "UnknownRequest", sub |-> ""]

\* parse_expiration: SystemTime::now() + Duration::from_millis(N as u64).
parse_expiration(expiration_type, expiration_value, now) ==
    IF uppercase(expiration_type) = B_PX
    THEN Once(parse_integer_utils(expiration_value), LAMBDA i :
            IF i.ok THEN [ok |-> TRUE, at |-> now + as_u64(i.n), px |-> i.n,
                          err |-> "", sub |-> ""]
            ELSE [ok |-> FALSE, at |-> 0, px |-> 0,
                  err |-> "RespParseError", sub |-> i.err])
    ELSE [ok |-> FALSE, at |-> 0, px |-> 0, err |-> "UnknownRequest", sub |-> ""]

IsBulk(val) == val.t = "BulkString"

parse_ping(values) ==
    IF values /= <<>> THEN CmdErr("UnexpectedNumberOfArgs", "", Len(values))
    ELSE CmdOk(Ping)

parse_echo(values) ==
    IF Len(values) /= 1 THEN CmdErr("UnexpectedNumberOfArgs", "", Len(values))
    ELSE IF IsBulk(values[1]) THEN CmdOk(Echo(values[1].v))
    ELSE CmdErr("UnexpectedArgumentType", "", 0)

parse_set(values, now) ==
    IF Len(values) /= 2 /\ Len(values) /= 4
    THEN CmdErr("UnexpectedNumberOfArgs", "", Len(values))
    ELSE IF Len(values) = 2
    THEN IF IsBulk(values[1]) /\ IsBulk(values[2])
         THEN CmdOk(Set(values[1].v, values[2].v, NoExpiration, 0))
         ELSE CmdErr("UnexpectedArgumentType", "", 0)
    ELSE IF \A i \in 1..4 : IsBulk(values[i])
         THEN LET e == parse_expiration(values[3].v, values[4].v, now) IN
              IF e.ok THEN CmdOk(Set(values[1].v, values[2].v, e.at, e.px))
              ELSE CmdErr(e.err, e.sub, 0)
         ELSE CmdErr("UnexpectedArgumentType", "", 0)

\* A mutant of parse_get: the first argument is the key, whatever follows it.
parse_get_first_argument(values) ==
    IF Len(values) = 0 THEN CmdErr("UnexpectedNumberOfArgs", "", Len(values))
    ELSE IF IsBulk(values[1]) THEN CmdOk(Get(values[1].v))
    ELSE CmdErr("UnexpectedArgumentType", "", 0)

parse_get(values) ==
    IF Len(values) /= 1 THEN CmdErr("UnexpectedNumberOfArgs", "", Len(values))
    ELSE IF IsBulk(values[1]) THEN CmdOk(Get(values[1].v))
    ELSE CmdErr("UnexpectedArgumentType", "", 0)

parse_command_get(values) ==
    IF \A i \in 1..Len(values) : IsBulk(values[i])
    THEN CmdOk(ConfigGet([i \in 1..Len(values) |-> values[i].v]))
    ELSE CmdErr("UnexpectedArgumentType", "", 0)

\* A mutant of parse_config: the subcommand alone is enough.
parse_config_subcommand_only(values) ==
    IF Len(values) < 1 THEN CmdErr("UnexpectedNumberOfArgs", "", Len(values))
    ELSE IF IsBulk(values[1])
    THEN IF uppercase(values[1].v) = B_GET THEN parse_command_get(Tail(values))
         ELSE CmdErr("UnknownRequest", "", 0)
    ELSE CmdErr("UnexpectedArgumentType", "", 0)

parse_config(values) ==
    IF Len(values) < 2 THEN CmdErr("UnexpectedNumberOfArgs", "", Len(values))
    ELSE IF IsBulk(values[1])
    THEN IF uppercase(values[1].v) = B_GET THEN parse_command_get(Tail(values))
         ELSE CmdErr("UnknownRequest", "", 0)
    ELSE CmdErr("UnexpectedArgumentType", "", 0)

\* KEYS: exactly one trailing BulkString argument.
parse_keys(values) ==
    IF Len(values) /= 1 THEN CmdErr("UnexpectedNumberOfArgs", "", Len(values))
    ELSE IF IsBulk(values[1]) THEN CmdOk(Keys(values[1].v))
    ELSE CmdErr("UnexpectedArgumentType", "", 0)

\* INFO: no argument, or one BulkString argument.
parse_info(values) ==
    IF Len(values) = 0 THEN CmdOk(InfoNone)
    ELSE IF Len(values) /= 1 THEN CmdErr("UnexpectedNumberOfArgs", "", Len(values))
    ELSE IF IsBulk(values[1]) THEN CmdOk(InfoSome(values[1].v))
    ELSE CmdErr("UnexpectedArgumentType", "", 0)

\* parse_command
parse_command(value, now) ==
    IF value.t = "Array"
    THEN IF value.vals = <<>> THEN CmdErr("UnknownRequest", "", 0)
         ELSE IF IsBulk(value.vals[1])
         THEN LET name == uppercase(value.vals[1].v)
                  args == Tail(value.vals)
              IN  CASE name = B_PING -> parse_ping(args)
                    [] name = B_ECHO -> parse_echo(args)
                    [] name = B_SET -> parse_set(args, now)
                    [] name = B_GET -> parse_get(args)
                    [] name = B_CONFIG -> parse_config(args)
                    [] name = B_KEYS -> parse_keys(args)
                    [] name = B_INFO -> parse_info(args)
                    [] OTHER -> CmdErr("UnknownRequest", "", 0)
         ELSE CmdErr("UnknownRequest", "", 0)
    ELSE CmdErr("UnknownRequest", "", 0)

\* The for loop of parse_commands: the first command in error ends it.
\* The result is [ok, requests, err, sub, n].
RECURSIVE parse_commands_loop(_, _, _)
parse_commands_loop(resp_values, requests, now) ==
    IF resp_values = <<>>
    THEN [ok |-> TRUE, requests |-> requests, err |-> "", sub |-> "", n |-> 0]
    ELSE Once(parse_command(Head(resp_values), now), LAMBDA c :
            IF ~c.ok
            THEN [ok |-> FALSE, requests |-> <<>>, err |-> c.err, sub |-> c.sub,
                  n |-> c.n]
            ELSE parse_commands_loop(Tail(resp_values), Append(requests, c.request),
                                     now))

\* parse_commands.  A panic of the RESP parser unwinds through it.
parse_commands(input, now) ==
    IF input = <<>>
    THEN [ok |-> TRUE, requests |-> <<>>, err |-> "", sub |-> "", n |-> 0]
    ELSE Once(get_values(input), LAMBDA vs :
            IF ~vs.ok
            THEN IF vs.err = "Panic"
                 THEN [ok |-> FALSE, requests |-> <<>>, err |-> "Panic", sub |-> "",
                       n |-> 0]
                 ELSE [ok |-> FALSE, requests |-> <<>>, err |-> "RespParseError",
                       sub |-> vs.err, n |-> vs.n]
            ELSE parse_commands_loop(vs.values, <<>>, now))

(***************************************************************************)
(* The debug form (format!("{:?}", error)) of a RedisError, as the payload *)
(* of the SimpleError reply: the variant names and the integer payload;    *)
(* the message text inside the variant is left out.                        *)
(***************************************************************************)
B_RespParseError == <<82, 101, 115, 112, 80, 97, 114, 115, 101, 69, 114, 114, 111, 114>>
B_IOError == <<73, 79, 69, 114, 114, 111, 114>>
B_UnknownRequest == <<85, 110, 107, 110, 111, 119, 110, 82, 101, 113, 117, 101, 115, 116>>
B_UnexpectedNumberOfArgs ==
    <<85, 110, 101, 120, 112, 101, 99, 116, 101, 100, 78, 117, 109, 98, 101, 114,
      79, 102, 65, 114, 103, 115>>
B_UnexpectedArgumentType ==
    <<85, 110, 101, 120, 112, 101, 99, 116, 101, 100, 65, 114, 103, 117, 109, 101,
      110, 116, 84, 121, 112, 101>>
B_UnexpectedEnd == <<85, 110, 101, 120, 112, 101, 99, 116, 101, 100, 69, 110, 100>>
B_UnknownStartingByte ==
    <<85, 110, 107, 110, 111, 119, 110, 83, 116, 97, 114, 116, 105, 110, 103, 66,
      121, 116, 101>>
B_IntParseFailure ==
    <<73, 110, 116, 80, 97, 114, 115, 101, 70, 97, 105, 108, 117, 114, 101>>
B_BadBulkStringSize ==
    <<66, 97, 100, 66, 117, 108, 107, 83, 116, 114, 105, 110, 103, 83, 105, 122, 101>>
B_BadArraySize == <<66, 97, 100, 65, 114, 114, 97, 121, 83, 105, 122, 101>>
B_StringParseFailure ==
    <<83, 116, 114, 105, 110, 103, 80, 97, 114, 115, 101, 70, 97, 105, 108, 117, 114, 101>>

Paren(b) == <<40>> \o b \o <<41>>

RespErrorDebug(sub, i) ==
    CASE sub = "UnexpectedEnd" -> B_UnexpectedEnd
      [] sub = "UnknownStartingByte" -> B_UnknownStartingByte \o Paren(to_string(i))
      [] sub = "IntParseFailure" -> B_IntParseFailure
      [] sub = "StringParseFailure" -> B_StringParseFailure
      [] sub = "BadBulkStringSize" -> B_BadBulkStringSize \o Paren(to_string(i))
      [] sub = "BadArraySize" -> B_BadArraySize \o Paren(to_string(i))

DebugForm(err, sub, i) ==
    CASE err = "RespParseError" -> B_RespParseError \o Paren(RespErrorDebug(sub, i))
      [] err = "IOError" -> B_IOError
      [] err = "UnknownRequest" -> B_UnknownRequest
      [] err = "UnexpectedNumberOfArgs" -> B_UnexpectedNumberOfArgs
      [] err = "UnexpectedArgumentType" -> B_UnexpectedArgumentType

(***************************************************************************)
(* ValueType, the RefCell borrow flag, and the branches of handle_request. *)
(***************************************************************************)
ValueType(value, expiration) == [value |-> value, expiration |-> expiration]

\* A mutant of is_expired: an entry without a deadline counts as expired.
is_expired_none_expired(v, now) ==
    IF v.expiration = NoExpiration THEN TRUE ELSE now > v.expiration

\* A mutant of is_expired: the comparison is turned around.
is_expired_reversed(v, now) ==
    IF v.expiration = NoExpiration THEN FALSE ELSE now < v.expiration

\* A mutant of is_expired: an entry is expired from its deadline on (>=).
is_expired_at_deadline(v, now) ==
    IF v.expiration = NoExpiration THEN FALSE ELSE now >= v.expiration

\* ValueType::is_expired: map_or(false, |expiration| SystemTime::now() > expiration)
is_expired(v, now) ==
    IF v.expiration = NoExpiration THEN FALSE ELSE now > v.expiration

\* RefCell's borrow flag: 0 unused, n > 0 shared borrows, -1 mutably borrowed.
borrow(flag) == flag + 1
borrow_mut(flag) == -1

\* A mutant of drop_ref: the Ref is kept alive (across the write that follows).
drop_ref_kept(flag) == flag

\* Dropping the Ref taken by borrow(), at the end of the statement that took it.
drop_ref(flag) == flag - 1

\* A mutant of drop_ref_mut: the RefMut is kept alive after the request.
drop_ref_mut_kept(flag) == flag

\* Dropping the RefMut taken by borrow_mut().
drop_ref_mut(flag) == flag + 1

\* HashMap::insert and HashMap::remove on a function with a finite domain.
insert(d, key, v) == [k \in DOMAIN d \cup {key} |-> IF k = key THEN v ELSE d[k]]
remove(d, key) == [k \in DOMAIN d \ {key} |-> d[k]]

\* What the synchronous part of a handle_request branch yields: the keyspace, the
\* values it goes on to write (in order), the error it returns without writing, the
\* borrow flags of data and config, and whether a RefCell borrow panicked.
Done(d, out, err, dflag, cflag) ==
    [data |-> d, out |-> out, err |-> err, dflag |-> dflag, cflag |-> cflag,
     panic |-> FALSE]
BorrowPanic(d, dflag, cflag) ==
    [data |-> d, out |-> <<>>, err |-> "", dflag |-> dflag, cflag |-> cflag,
     panic |-> TRUE]

\* A mutant of handle_set: an entry that exists keeps its deadline, only the value
\* is replaced.
handle_set_keeps_deadline(request, d, dflag, cflag) ==
    Done(insert(d, request.key,
                ValueType(request.value,
                          IF request.key \in DOMAIN d THEN d[request.key].expiration
                          ELSE request.expiration)),
         <<SimpleString(B_OK)>>, "", dflag, cflag)

\* RedisRequest::Set
handle_set(request, d, dflag, cflag) ==
    IF dflag /= 0 THEN BorrowPanic(d, dflag, cflag)
    ELSE LET f1 == borrow_mut(dflag)
             d1 == insert(d, request.key, ValueType(request.value, request.expiration))
             f2 == drop_ref_mut(f1)
         IN  Done(d1, <<SimpleString(B_OK)>>, "", f2, cflag)

\* A mutant of handle_get: an expired entry is reported absent and not removed.
handle_get_no_remove(key, d, dflag, cflag, now) ==
    IF key \in DOMAIN d /\ ~is_expired(d[key], now)
    THEN Done(d, <<BulkString(d[key].value)>>, "", dflag, cflag)
    ELSE Done(d, <<NullBulkString>>, "", dflag, cflag)

\* RedisRequest::Get
handle_get(key, d, dflag, cflag, now) ==
    IF dflag < 0 THEN BorrowPanic(d, dflag, cflag)
    ELSE LET f1 == borrow(dflag)
             present == key \in DOMAIN d
             f2 == drop_ref(f1)
         IN  IF present /\ is_expired(d[key], now)
             THEN IF f2 /= 0 THEN BorrowPanic(d, f2, cflag)
                  ELSE LET f3 == borrow_mut(f2)
                           d1 == remove(d, key)
                           f4 == drop_ref_mut(f3)
                       IN  Done(d1, <<NullBulkString>>, "", f4, cflag)
             ELSE IF present
             THEN Done(d, <<BulkString(d[key].value)>>, "", f2, cflag)
             ELSE Done(d, <<NullBulkString>>, "", f2, cflag)

\* The loop of ConfigGet: param, value pairs of the params the config holds.
RECURSIVE config_values(_, _)
config_values(params, cfg) ==
    IF params = <<>> THEN <<>>
    ELSE LET param == Head(params) IN
         (IF param \in DOMAIN cfg
          THEN <<BulkString(param), BulkString(cfg[param])>> ELSE <<>>)
         \o config_values(Tail(params), cfg)

\* A mutant of handle_config_get: when the config holds none of the parameters
\* the reply is NullArray.
handle_config_get_null(params, d, cfg, dflag, cflag) ==
    IF config_values(params, cfg) = <<>> THEN Done(d, <<NullArray>>, "", dflag, cflag)
    ELSE Done(d, <<Array(config_values(params, cfg))>>, "", dflag, cflag)

\* RedisRequest::ConfigGet
handle_config_get(params, d, cfg, dflag, cflag) ==
    IF params = <<>> THEN Done(d, <<NullArray>>, "", dflag, cflag)
    ELSE IF cflag < 0 THEN BorrowPanic(d, dflag, cflag)
    ELSE LET c1 == borrow(cflag)
             values == config_values(params, cfg)
             c2 == drop_ref(c1)
         IN  Done(d, <<Array(values)>>, "", dflag, c2)

\* The orders in which HashMap::keys() may yield the keys of d.
KeyOrders(d) ==
    {o \in [1..Cardinality(DOMAIN d) -> DOMAIN d] :
        \A i, j \in DOMAIN o : i /= j => o[i] /= o[j]}

\* A mutant of handle_keys: listing the keys drops the entries that have a deadline.
handle_keys_purging(params, d, dflag, cflag, order) ==
    LET kept == {k \in DOMAIN d : d[k].expiration = NoExpiration} IN
    Done([k \in kept |-> d[k]],
         <<Array([i \in DOMAIN order |-> BulkString(order[i])])>>, "", dflag, cflag)

\* RedisRequest::Keys; `order` is the iteration order of the HashMap.
handle_keys(params, d, dflag, cflag, order) ==
    IF params = B_STAR
    THEN IF dflag < 0 THEN BorrowPanic(d, dflag, cflag)
         ELSE LET f1 == borrow(dflag)
                  keys == order
                  f2 == drop_ref(f1)
              IN  Done(d, <<Array([i \in DOMAIN keys |-> BulkString(keys[i])])>>,
                       "", f2, cflag)
    ELSE Done(d, <<>>, "UnknownRequest", dflag, cflag)

B_role_master ==
    <<114, 111, 108, 101, 58, 109, 97, 115, 116, 101, 114, 10, 109, 97, 115, 116,
      101, 114, 95, 114, 101, 112, 108, 105, 100, 58>>
B_master_repl_offset ==
    <<10, 109, 97, 115, 116, 101, 114, 95, 114, 101, 112, 108, 95, 111, 102, 102,
      115, 101, 116, 58>>
B_connected_slaves ==
    <<10, 99, 111, 110, 110, 101, 99, 116, 101, 100, 95, 115, 108, 97, 118, 101,
      115, 58>>
B_role_slave == <<114, 111, 108, 101, 58, 115, 108, 97, 118, 101>>

\* A mutant of replication_report: every line, the last one too, ends in a newline.
replication_report_newline(info) ==
    IF info.role = "Master"
    THEN BulkString(B_role_master \o info.master_replid
                    \o B_master_repl_offset \o to_string(info.master_repl_offset)
                    \o B_connected_slaves \o to_string(info.connected_slaves)
                    \o <<10>>)
    ELSE BulkString(B_role_slave \o <<10>>)

\* RedisReplicationInfo::write_async: the report, as one BulkString.
replication_report(info) ==
    IF info.role = "Master"
    THEN BulkString(B_role_master \o info.master_replid
                    \o B_master_repl_offset \o to_string(info.master_repl_offset)
                    \o B_connected_slaves \o to_string(info.connected_slaves))
    ELSE BulkString(B_role_slave)

\* RedisRequest::Info
handle_info(request, d, info, dflag, cflag) ==
    IF ~request.some THEN Done(d, <<replication_report(info)>>, "", dflag, cflag)
    ELSE IF request.key = B_replication
    THEN Done(d, <<replication_report(info)>>, "", dflag, cflag)
    ELSE Done(d, <<NullBulkString>>, "", dflag, cflag)

\* handle_request up to its socket write: the match on the request.
handle_request(request, d, cfg, info, dflag, cflag, now, order) ==
    CASE request.cmd = "Ping" -> Done(d, <<SimpleString(B_PONG)>>, "", dflag, cflag)
      [] request.cmd = "Echo" -> Done(d, <<BulkString(request.key)>>, "", dflag, cflag)
      [] request.cmd = "Set" -> handle_set(request, d, dflag, cflag)
      [] request.cmd = "Get" -> handle_get(request.key, d, dflag, cflag, now)
      [] request.cmd = "ConfigGet" ->
            handle_config_get(request.params, d, cfg, dflag, cflag)
      [] request.cmd = "Keys" -> handle_keys(request.key, d, dflag, cflag, order)
      [] request.cmd = "Info" -> handle_info(request, d, info, dflag, cflag)

\* A mutant of config_after: CONFIG GET stores an empty value for every parameter
\* it was asked for and did not find.
config_after_caching(request, cfg) ==
    IF request.cmd = "ConfigGet"
    THEN [k \in DOMAIN cfg \cup Range(request.params) |->
            IF k \in DOMAIN cfg THEN cfg[k] ELSE <<>>]
    ELSE cfg

\* The config after handle_request: the only use of self.config is the shared
\* borrow() of the ConfigGet arm, no arm takes config.borrow_mut().
config_after(request, cfg) == cfg

(***************************************************************************)
(* The bytes clients send.  Each is what one socket read returns (at most  *)
(* 512 bytes): one command, a pipeline of commands, or a part of a frame.  *)
(***************************************************************************)
B_a == <<97>>
B_x == <<120>>
B_y == <<121>>
B_FOO == <<70, 79, 79>>
B_set == <<115, 101, 116>>
B_px == <<112, 120>>

\* The RESP array of bulk strings a client sends for a command.
Cmd(words) == write(Array([i \in DOMAIN words |-> BulkString(words[i])]))

Buffers ==
    << Cmd(<<B_SET, B_a, B_x>>) \o Cmd(<<B_GET, B_a>>),
       Cmd(<<B_set, B_a, B_y, B_px, <<ZERO + 1>>>>),
       Cmd(<<B_GET, B_a>>) \o Cmd(<<B_KEYS, B_STAR>>),
       Cmd(<<B_KEYS, B_STAR>>),
       Cmd(<<B_KEYS, B_a>>) \o Cmd(<<B_PING>>) \o Cmd(<<B_SET, B_x, B_y>>),
       Cmd(<<B_FOO>>) \o Cmd(<<B_PING>>),
       Cmd(<<B_ECHO, B_x>>) \o Cmd(<<B_GET, B_x>>)
          \o Cmd(<<B_CONFIG, B_GET, B_dir, B_a>>) \o Cmd(<<B_INFO>>),
       <<STAR, ZERO + 2, CR, LF, DOLLAR, ZERO + 3, CR, LF>> \o B_GET \o SEPARATOR
          \o <<DOLLAR, ZERO + 1, CR, LF>>,
       B_a \o SEPARATOR,
       Cmd(<<B_SET, B_x, B_y>>) \o Cmd(<<B_FOO>>),
       Cmd(<<B_PING>>) \o Cmd(<<B_SET, B_a, B_y, B_PX, <<ZERO>>>>) >>

(***************************************************************************)
(* The state.                                                              *)
(***************************************************************************)
Conns == {"c1", "c2"}

\* handle_requests: `vec![0u8; 512]`, the buffer a read fills.
INPUT_BUF_LEN == 512

VARIABLES
    data,               \* RedisHandler.data: key bytes -> ValueType
    config,             \* RedisHandler.config: parameter bytes -> value bytes
    replication_info,   \* RedisHandler.replication_info
    data_flag,          \* the borrow flag of the RefCell around data
    config_flag,        \* the borrow flag of the RefCell around config
    now,                \* SystemTime::now(), in milliseconds
    pc,                 \* where each connection task is suspended
    requests,           \* the Vec<RedisRequest> of the read being handled
    idx,                \* the position of the for loop in requests (1-based)
    pending,            \* the values the awaited write_async calls are writing
    exit,               \* how the task ended
    reads,              \* socket reads completed so far
    wfails,             \* socket writes failed so far
    lastSet,            \* history: per key, the latest Set evaluated
    lastEval,           \* history: the evaluation whose reply is being written
    sent,               \* history: the writes for the request being handled
    done,               \* history: the writes for the request handled before it
    parsed,             \* history: how the latest read parsed
    handled,            \* history: requests of the latest read handed to handle_request
    replyWriteFailed,   \* history: a write of a reply failed on the connection
    codec,              \* a run of RespValue::write and RespParser::get_values
    call,               \* a call of handle_request on a given handler state
    rdb,                \* a run of the RDB decoder on a given input
    stream              \* the bytes each client sends, and how far they have been read

handler_vars ==
    <<data, config, replication_info, data_flag, config_flag, now, pc, requests,
      idx, pending, exit, reads, wfails, lastSet, lastEval, sent, done, parsed,
      handled, replyWriteFailed>>

vars == <<handler_vars, codec, call, rdb, stream>>

EmptyMap == [k \in {} |-> 0]

NoEval ==
    [req |-> Request("None"), out |-> <<>>, err |-> "", at |-> 0,
     prior |-> EmptyMap, snap |-> EmptyMap, after |-> {}]

\* History of the writes for one request: the values written, whether a write
\* failed, and whether the bytes written were those of the reply computed when the
\* request was evaluated.  `of` is the position of the request (0: the parse error).
NoWrites == [of |-> -1, n |-> 0, failed |-> FALSE, asEvaluated |-> TRUE]
Writes(i) == [of |-> i, n |-> 0, failed |-> FALSE, asEvaluated |-> TRUE]

NoParse == [err |-> "", sub |-> "", nvalues |-> 0, ahead |-> 0]

\* RedisReplicationInfo::default with replication_info_from_args for a master;
\* the 40 random alphanumeric characters of master_replid are 40 times "a".
MasterInfo ==
    [role |-> "Master", connected_slaves |-> 0,
     master_replid |-> [i \in 1..40 |-> 97], master_repl_offset |-> 0]

\* RedisArgs::to_config_dict for `--dir /tmp` and the default port.
StartConfig == [k \in {B_dir, B_port} |-> IF k = B_dir THEN B_tmp ELSE B_6379]

\* main: RedisHandler::new_with_contents(config, replication_info, HashMap::new()),
\* every connection accepted and its task at the first read.
InitHandler ==
    /\ data = EmptyMap
    /\ config = StartConfig
    /\ replication_info = MasterInfo
    /\ data_flag = 0
    /\ config_flag = 0
    /\ now = 0
    /\ pc = [c \in Conns |-> "read"]
    /\ requests = [c \in Conns |-> <<>>]
    /\ idx = [c \in Conns |-> 0]
    /\ pending = [c \in Conns |-> <<>>]
    /\ exit = [c \in Conns |-> ""]
    /\ reads = 0
    /\ wfails = 0
    /\ lastSet = EmptyMap
    /\ lastEval = [c \in Conns |-> NoEval]
    /\ sent = [c \in Conns |-> NoWrites]
    /\ done = [c \in Conns |-> NoWrites]
    /\ parsed = [c \in Conns |-> NoParse]
    /\ handled = [c \in Conns |-> 0]
    /\ replyWriteFailed = [c \in Conns |-> FALSE]

(***************************************************************************)
(* The RDB decoder (rdb_parser.rs).  The reader is the input with the      *)
(* number of bytes consumed so far; every read function returns one record *)
(* shape: on success the decoded number `n`, bytes `bytes` or keyspace     *)
(* `db`, the RdbValue variant and the new position; on failure the         *)
(* RdbFileError kind with its byte and its text.                           *)
(***************************************************************************)
B_REDIS == <<82, 69, 68, 73, 83>>
TAG_METADATA == 250
TAG_DATABASE == 254
TAG_END_OF_FILE == 255
TAG_HASH_TABLE == 251
TAG_MILLIS == 252
TAG_SECONDS == 253
TAG_INT8 == 192
TAG_INT16 == 193
TAG_INT32 == 194

RdbOk(n, bytes, db, variant, pos) ==
    [ok |-> TRUE, n |-> n, bytes |-> bytes, db |-> db, variant |-> variant,
     pos |-> pos, err |-> "", b |-> 0, text |-> ""]
RdbErr(kind, b, text) ==
    [ok |-> FALSE, n |-> 0, bytes |-> <<>>, db |-> EmptyMap, variant |-> "",
     pos |-> 0, err |-> kind, b |-> b, text |-> text]

\* Read::read_exact on a slice: the next n bytes, or an IOError (UnexpectedEof)
\* when fewer than n are left.
read_exact(input, pos, n) ==
    IF pos + n > Len(input) THEN RdbErr("IOError", 0, "")
    ELSE RdbOk(0, Slice(input, pos, pos + n), EmptyMap, "", pos + n)

\* RdbReader::read_next_byte
read_next_byte(input, pos) ==
    Try(read_exact(input, pos, 1),
        LAMBDA r : RdbOk(r.bytes[1], <<>>, EmptyMap, "", r.pos))

\* u32::from_be_bytes, u32::from_le_bytes and u64::from_le_bytes.  Applied to
\* buffers whose value is below 2^31.
RECURSIVE from_be_bytes(_)
from_be_bytes(buffer) ==
    IF buffer = <<>> THEN 0
    ELSE from_be_bytes(SubSeq(buffer, 1, Len(buffer) - 1)) * 256 + buffer[Len(buffer)]

RECURSIVE from_le_bytes(_)
from_le_bytes(buffer) ==
    IF buffer = <<>> THEN 0 ELSE Head(buffer) + 256 * from_le_bytes(Tail(buffer))

\* A mutant of signed_from_le_bytes: the sign bit is dropped.
signed_from_le_bytes_no_sign(buffer) ==
    from_le_bytes(SubSeq(buffer, 1, Len(buffer) - 1))
        + (buffer[Len(buffer)] % 128) * Pow2(8 * (Len(buffer) - 1))

\* i16::from_le_bytes and i32::from_le_bytes: two's complement, the sign is the
\* top bit of the last byte.
signed_from_le_bytes(buffer) ==
    from_le_bytes(SubSeq(buffer, 1, Len(buffer) - 1))
        + (IF buffer[Len(buffer)] >= 128 THEN buffer[Len(buffer)] - 256
           ELSE buffer[Len(buffer)]) * Pow2(8 * (Len(buffer) - 1))

\* The arms 0, 1 and 2 of the match on `(b & 0xc0) >> 6` in read_size and in
\* read_string compute the same number from the tag byte t.
size_after_tag(input, t) ==
    CASE t.n \div 64 = 0 -> RdbOk(t.n % 64, <<>>, EmptyMap, "", t.pos)
      [] t.n \div 64 = 1 ->
            Try(read_next_byte(input, t.pos),
                LAMBDA nb : RdbOk((t.n % 64) * 256 + nb.n, <<>>, EmptyMap, "", nb.pos))
      [] t.n \div 64 = 2 ->
            Try(read_exact(input, t.pos, 4),
                LAMBDA buffer : RdbOk(from_be_bytes(buffer.bytes), <<>>, EmptyMap, "",
                                      buffer.pos))

\* A mutant of read_size: the low six bits of the tag are the size in every form.
read_size_low_bits(input, pos) ==
    Try(read_next_byte(input, pos),
        LAMBDA t : IF t.n \div 64 = 3 THEN RdbErr("UnknownStartingByte", t.n, "")
                   ELSE Try(size_after_tag(input, t),
                            LAMBDA size : [size EXCEPT !.n = t.n % 64]))

\* RdbReader::read_size
read_size(input, pos) ==
    Try(read_next_byte(input, pos),
        LAMBDA t : IF t.n \div 64 = 3 THEN RdbErr("UnknownStartingByte", t.n, "")
                   ELSE size_after_tag(input, t))

\* The special string encodings of numbers in read_string: format!("{}", v) of the
\* u8, i16 or i32 that follows the tag byte t.
read_string_integer(input, t) ==
    CASE t.n = TAG_INT8 ->
            Try(read_next_byte(input, t.pos),
                LAMBDA v : RdbOk(0, to_string(v.n), EmptyMap, "", v.pos))
      [] t.n \in {TAG_INT16, TAG_INT32} ->
            Try(read_exact(input, t.pos, IF t.n = TAG_INT16 THEN 2 ELSE 4),
                LAMBDA buffer : RdbOk(0, to_string(signed_from_le_bytes(buffer.bytes)),
                                      EmptyMap, "", buffer.pos))
      [] OTHER -> RdbErr("UnknownStartingByte", t.n, "")

\* RdbReader::read_string
read_string(input, pos) ==
    Try(read_next_byte(input, pos),
        LAMBDA t : IF t.n \div 64 = 3 THEN read_string_integer(input, t)
                   ELSE Try(size_after_tag(input, t),
                            LAMBDA len : read_exact(input, len.pos, len.n)))

\* RdbReader::read_metadata_entry: the key then the value.
read_metadata_entry(input, pos) ==
    Try(read_string(input, pos),
        LAMBDA key : Try(read_string(input, key.pos),
                         LAMBDA value : RdbOk(0, <<>>, EmptyMap, "MetadataSection",
                                              value.pos)))

\* ValueType::new and new_from_millis: the deadline is UNIX_EPOCH + the duration,
\* in milliseconds.
new(value) == ValueType(value, NoExpiration)
new_from_millis(value, millis) == ValueType(value, millis)

\* A mutant of new_from_seconds: the seconds are taken as milliseconds.
new_from_seconds_as_millis(value, seconds) == ValueType(value, seconds)

\* ValueType::new_from_seconds
new_from_seconds(value, seconds) == ValueType(value, seconds * 1000)

\* `let key = self.read_string()?; let value = self.read_string()?;` and the
\* insert of the arm for `tag`, with the number n read before them.
read_key_value(input, pos, db, tag, n) ==
    Try(read_string(input, pos),
        LAMBDA key :
            Try(read_string(input, key.pos),
                LAMBDA value :
                    RdbOk(0, <<>>,
                          insert(db, key.bytes,
                                 CASE tag = TAG_MILLIS -> new_from_millis(value.bytes, n)
                                   [] tag = TAG_SECONDS -> new_from_seconds(value.bytes, n)
                                   [] OTHER -> new(value.bytes)),
                          "", value.pos)))

\* The arms 0xfc and 0xfd: the little-endian number of 8 or 4 bytes, then the byte
\* 0x00, then key and value.
read_expiring(input, pos, db, tag) ==
    Try(read_exact(input, pos, IF tag = TAG_MILLIS THEN 8 ELSE 4),
        LAMBDA buffer :
            Try(read_next_byte(input, buffer.pos),
                LAMBDA b : IF b.n /= 0 THEN RdbErr("UnexpectedByte", b.n, "0x00")
                           ELSE read_key_value(input, b.pos, db, tag,
                                               from_le_bytes(buffer.bytes))))

\* One turn of the for loop of read_database: the match on the tag byte b.
read_record(input, b, db) ==
    CASE b.n = 0 -> read_key_value(input, b.pos, db, 0, 0)
      [] b.n \in {TAG_MILLIS, TAG_SECONDS} -> read_expiring(input, b.pos, db, b.n)
      [] OTHER -> RdbErr("UnexpectedByte", b.n, "One of (0xfc, 0xfd, 00)")

\* The for loop of read_database: `left` records still to read.
RECURSIVE read_records(_, _, _, _)
read_records(input, pos, left, db) ==
    IF left = 0 THEN RdbOk(0, <<>>, db, "Database", pos)
    ELSE Try(read_next_byte(input, pos),
             LAMBDA b : Try(read_record(input, b, db),
                            LAMBDA rec : read_records(input, rec.pos, left - 1, rec.db)))

\* RdbReader::read_database
read_database(input, pos) ==
    Try(read_size(input, pos),
        LAMBDA database_idx :
            IF database_idx.n /= 0
            THEN RdbErr("Unimplemented", 0, "Multiple databases not supported")
            ELSE Try(read_next_byte(input, database_idx.pos),
                     LAMBDA b :
                        IF b.n /= TAG_HASH_TABLE THEN RdbErr("UnexpectedByte", b.n, "0xfb")
                        ELSE Try(read_size(input, b.pos),
                                 LAMBDA n_values :
                                    Try(read_size(input, n_values.pos),
                                        LAMBDA n_expires :
                                            read_records(input, n_expires.pos,
                                                         n_values.n, EmptyMap)))))

\* A mutant of read_end_of_file: no checksum is read.
read_end_of_file_no_checksum(input, pos) ==
    RdbOk(0, <<>>, EmptyMap, "EndOfFile", pos)

\* RdbReader::read_end_of_file
read_end_of_file(input, pos) ==
    Try(read_exact(input, pos, 8),
        LAMBDA checksum : RdbOk(0, checksum.bytes, EmptyMap, "EndOfFile", checksum.pos))

\* A mutant of read_header: the magic bytes are not compared.
read_header_any_magic(input, pos) ==
    Try(read_exact(input, pos, 9),
        LAMBDA buffer : RdbOk(0, Slice(buffer.bytes, 5, 9), EmptyMap, "Header",
                              buffer.pos))

\* RdbReader::read_header
read_header(input, pos) ==
    Try(read_exact(input, pos, 9),
        LAMBDA buffer :
            IF Slice(buffer.bytes, 0, 5) /= B_REDIS THEN RdbErr("NotRedisFile", 0, "")
            ELSE RdbOk(0, Slice(buffer.bytes, 5, 9), EmptyMap, "Header", buffer.pos))

\* RdbReader::read_next_value: no tag leads to read_header, so the result is never
\* the Header variant.
read_next_value(input, pos) ==
    Try(read_next_byte(input, pos),
        LAMBDA b : CASE b.n = TAG_METADATA -> read_metadata_entry(input, b.pos)
                     [] b.n = TAG_DATABASE -> read_database(input, b.pos)
                     [] b.n = TAG_END_OF_FILE -> read_end_of_file(input, b.pos)
                     [] OTHER -> RdbErr("UnknownStartingByte", b.n, ""))

\* No RDB decoding is in progress.
NoRdb ==
    [kind |-> "none", input |-> <<>>, pos |-> 0, stage |-> "none", db |-> EmptyMap,
     res |-> RdbErr("", 0, ""), variants |-> <<>>]

\* No run of the codec and no separate call of handle_request is in progress.
NoResult == [ok |-> FALSE, values |-> <<>>, err |-> "", n |-> 0]
NoCommands == [ok |-> FALSE, requests |-> <<>>, err |-> "", sub |-> "", n |-> 0]
NoCodec ==
    [stage |-> "none", values |-> <<>>, bytes |-> <<>>, first |-> Err("", 0),
     result |-> NoResult, commands |-> NoCommands]
NoCall ==
    [stage |-> "none", request |-> Request("None"), d |-> EmptyMap,
     cfg |-> EmptyMap, info |-> MasterInfo, now |-> 0, order |-> <<>>,
     r |-> Done(EmptyMap, <<>>, "", 0, 0), written |-> <<>>]

\* The bytes a client sends on its connection: the commands it encodes, one frame
\* after the other.  History: the requests those frames denote, the positions at
\* which a frame ends, and whether every read so far began and ended at one,
\* and the connections that had closed when this one was accepted.
RECURSIVE FrameEnds(_, _)
FrameEnds(values, from) ==
    IF values = <<>> THEN {from}
    ELSE {from} \cup FrameEnds(Tail(values), from + Len(write(Head(values))))
Sends(values) ==
    [bytes |-> write_all_vals(values), pos |-> 0,
     commands |-> {parse_command(values[i], 0).request : i \in DOMAIN values},
     ends |-> FrameEnds(values, 0), aligned |-> TRUE, after |-> {}]
NoStream == [c \in Conns |-> Sends(<<>>)]

Init ==
    /\ InitHandler
    /\ codec = NoCodec
    /\ call = NoCall
    /\ rdb = NoRdb
    /\ stream = NoStream

(***************************************************************************)
(* The request loop of handle_requests.  A task runs from one suspension   *)
(* point (a socket read or write) to the next without interleaving, so an  *)
(* action is the completion of the awaited read or write together with all *)
(* the synchronous code up to the next await.                              *)
(***************************************************************************)
WritePcs == {"write_reply", "write_error", "write_parse_error"}

\* A mutant of error_reply: the error is written twice.
error_reply_twice(err, sub, i) ==
    <<SimpleError(DebugForm(err, sub, i)), SimpleError(DebugForm(err, sub, i))>>

\* The SimpleError the loop writes for an error (lines 100 and 111).
error_reply(err, sub, i) == <<SimpleError(DebugForm(err, sub, i))>>

\* A mutant of request_at: the batch is walked from its end.
request_at_reversed(rs, i) == rs[Len(rs) + 1 - i]

\* `for request in requests`: the request the loop hands out at position i.
request_at(rs, i) == rs[i]

\* What the parsers make of buffer b when it is read at time t.
ParseTable ==
    [b \in DOMAIN Buffers |-> [t \in 0..MaxTime |-> parse_commands(Buffers[b], t)]]
ValuesTable == [b \in DOMAIN Buffers |-> get_values(Buffers[b])]

\* History: the commands at the head of the bytes that parse, up to the first
\* frame or command that does not.
RECURSIVE LeadingCommands(_)
LeadingCommands(input) ==
    IF input = <<>> THEN 0
    ELSE Once(next_value(input), LAMBDA step :
            IF step.ok /\ parse_command(step.value, 0).ok
            THEN 1 + LeadingCommands(step.remainder)
            ELSE 0)
AheadTable == [b \in DOMAIN Buffers |-> LeadingCommands(Buffers[b])]

\* History: the record of a Set evaluated at time t on keyspace d (its deadline, the
\* deadline of the entry it replaced, and whether that entry was expired and still
\* stored), and whether a Get of the key has been evaluated after the deadline.
SetRecord(request, c, t, d) ==
    [value |-> request.value, hasPx |-> request.expiration /= NoExpiration,
     px |-> request.px, at |-> t, by |-> c, probed |-> FALSE,
     deadline |-> request.expiration,
     overDeadline |-> IF request.key \in DOMAIN d THEN d[request.key].expiration
                      ELSE NoExpiration,
     revived |-> /\ request.key \in DOMAIN d
                 /\ d[request.key].expiration /= NoExpiration
                 /\ t > d[request.key].expiration]
Elapsed(s, t) == s.hasPx /\ s.px >= 0 /\ t - s.at > s.px
PastDeadline(s, t) == s.hasPx /\ t > s.deadline
HistoryAfter(request, c, t, ls, d) ==
    CASE request.cmd = "Set" -> insert(ls, request.key, SetRecord(request, c, t, d))
      [] request.cmd = "Get" /\ request.key \in DOMAIN ls ->
            IF PastDeadline(ls[request.key], t)
            THEN [ls EXCEPT ![request.key].probed = TRUE] ELSE ls
      [] OTHER -> ls

\* Request i of the batch rs is handed to handle_request, which runs up to its
\* socket write; a request in error makes the loop write the error instead.
Evaluate(c, rs, i, doneNow) ==
    \E order \in KeyOrders(data) :
      LET request == request_at(rs, i)
          r == handle_request(request, data, config, replication_info,
                              data_flag, config_flag, now, order)
      IN  /\ data' = r.data
          /\ config' = config_after(request, config)
          /\ data_flag' = r.dflag
          /\ config_flag' = r.cflag
          /\ requests' = [requests EXCEPT ![c] = rs]
          /\ idx' = [idx EXCEPT ![c] = i]
          /\ IF r.panic
             THEN /\ pc' = [pc EXCEPT ![c] = "closed"]
                  /\ exit' = [exit EXCEPT ![c] = "BorrowPanic"]
                  /\ pending' = [pending EXCEPT ![c] = <<>>]
             ELSE /\ exit' = exit
                  /\ IF r.err /= ""
                     THEN /\ pc' = [pc EXCEPT ![c] = "write_error"]
                          /\ pending' = [pending EXCEPT ![c] = error_reply(r.err, "", 0)]
                     ELSE /\ pc' = [pc EXCEPT ![c] = "write_reply"]
                          /\ pending' = [pending EXCEPT ![c] = r.out]
          /\ lastEval' = [lastEval EXCEPT ![c] =
                            [req |-> request, out |-> r.out, err |-> r.err, at |-> now,
                             prior |-> lastSet, snap |-> data, after |-> DOMAIN r.data]]
          /\ lastSet' = IF r.panic THEN lastSet ELSE HistoryAfter(request, c, now, lastSet, data)
          /\ sent' = [sent EXCEPT ![c] = Writes(i)]
          /\ done' = [done EXCEPT ![c] = doneNow]
          /\ handled' = [handled EXCEPT ![c] = i]

\* The loop goes back to `stream.read(..).await`.
BackToRead(c, doneNow) ==
    /\ pc' = [pc EXCEPT ![c] = "read"]
    /\ pending' = [pending EXCEPT ![c] = <<>>]
    /\ requests' = [requests EXCEPT ![c] = <<>>]
    /\ idx' = [idx EXCEPT ![c] = 0]
    /\ sent' = [sent EXCEPT ![c] = NoWrites]
    /\ done' = [done EXCEPT ![c] = doneNow]
    /\ lastEval' = [lastEval EXCEPT ![c] = NoEval]
    /\ UNCHANGED <<data, config, data_flag, config_flag, exit, lastSet, handled>>

\* The writes for the current request are over: the for loop takes the next
\* request of the batch, or the outer loop reads again.
Proceed(c, doneNow) ==
    IF pc[c] /= "write_parse_error" /\ idx[c] < Len(requests[c])
    THEN Evaluate(c, requests[c], idx[c] + 1, doneNow)
    ELSE BackToRead(c, doneNow)

\* The bytes of one read, parsed to p by parse_commands, are handled (lines 96-117):
\* the first request up to its write, or the write of the parse error.  vs and
\* ahead are history: what get_values made of the bytes, and LeadingCommands.
Received(c, p, vs, ahead) ==
           /\ parsed' = [parsed EXCEPT ![c] =
                           [err |-> p.err, sub |-> p.sub,
                            nvalues |-> IF vs.ok THEN Len(vs.values) ELSE 0,
                            ahead |-> ahead]]
           /\ IF p.err = "Panic"
              THEN /\ pc' = [pc EXCEPT ![c] = "closed"]
                   /\ exit' = [exit EXCEPT ![c] = "Panic"]
                   /\ requests' = [requests EXCEPT ![c] = <<>>]
                   /\ idx' = [idx EXCEPT ![c] = 0]
                   /\ sent' = [sent EXCEPT ![c] = NoWrites]
                   /\ done' = [done EXCEPT ![c] = NoWrites]
                   /\ handled' = [handled EXCEPT ![c] = 0]
                   /\ UNCHANGED <<data, config, data_flag, config_flag, pending, lastEval, lastSet>>
              ELSE IF ~p.ok
              THEN /\ pc' = [pc EXCEPT ![c] = "write_parse_error"]
                   /\ pending' = [pending EXCEPT ![c] = error_reply(p.err, p.sub, p.n)]
                   /\ requests' = [requests EXCEPT ![c] = <<>>]
                   /\ idx' = [idx EXCEPT ![c] = 0]
                   /\ sent' = [sent EXCEPT ![c] = Writes(0)]
                   /\ done' = [done EXCEPT ![c] = NoWrites]
                   /\ handled' = [handled EXCEPT ![c] = 0]
                   /\ UNCHANGED <<data, config, data_flag, config_flag, exit, lastEval, lastSet>>
              ELSE IF p.requests = <<>>
              THEN /\ requests' = [requests EXCEPT ![c] = <<>>]
                   /\ idx' = [idx EXCEPT ![c] = 0]
                   /\ sent' = [sent EXCEPT ![c] = NoWrites]
                   /\ done' = [done EXCEPT ![c] = NoWrites]
                   /\ handled' = [handled EXCEPT ![c] = 0]
                   /\ UNCHANGED <<pc, data, config, data_flag, config_flag, pending, exit,
                                  lastEval, lastSet>>
              ELSE Evaluate(c, p.requests, 1, NoWrites)

\* stream.read returns the bytes of Buffers[b].
ReadBytes(c, b) ==
    /\ pc[c] = "read"
    /\ reads < MaxReads
    /\ reads' = reads + 1
    /\ Received(c, ParseTable[b][now], ValuesTable[b], AheadTable[b])
    /\ UNCHANGED <<codec, call, rdb, stream, replication_info, now, wfails, replyWriteFailed>>

\* stream.read returns 0 bytes: break, and handle_requests returns Ok(()).
ReadEof(c) ==
    /\ pc[c] = "read"
    /\ reads < MaxReads
    /\ reads' = reads + 1
    /\ pc' = [pc EXCEPT ![c] = "closed"]
    /\ exit' = [exit EXCEPT ![c] = "Eof"]
    /\ UNCHANGED <<codec, call, rdb, stream, data, config, replication_info, data_flag,
                   config_flag, now,
                   requests, idx, pending, wfails, lastSet, lastEval, sent, done,
                   parsed, handled, replyWriteFailed>>

\* stream.read fails: `?` makes handle_requests return the error.
ReadError(c) ==
    /\ pc[c] = "read"
    /\ reads < MaxReads
    /\ reads' = reads + 1
    /\ pc' = [pc EXCEPT ![c] = "closed"]
    /\ exit' = [exit EXCEPT ![c] = "IoError"]
    /\ UNCHANGED <<codec, call, rdb, stream, data, config, replication_info, data_flag,
                   config_flag, now,
                   requests, idx, pending, wfails, lastSet, lastEval, sent, done,
                   parsed, handled, replyWriteFailed>>

\* A mutant of reply_written: the reply to a Get is built over the entry the
\* keyspace holds when the write runs, not over a copy made at evaluation.
reply_written_live(p, request, d) ==
    IF request.cmd = "Get" /\ Head(p).t = "BulkString"
    THEN IF request.key \in DOMAIN d THEN BulkString(d[request.key].value)
         ELSE NullBulkString
    ELSE Head(p)

\* The value write_async sends: a RespValue over the task's own copies (value_copy,
\* values, keys), whatever the keyspace d holds by the time the write runs.
reply_written(p, request, d) == Head(p)

\* The awaited write_async completes with Ok.
WriteOk(c) ==
    /\ pc[c] \in WritePcs
    /\ pending[c] /= <<>>
    /\ LET wire == write(reply_written(pending[c], lastEval[c].req, data))
           kept == pc[c] /= "write_reply"
                      \/ (sent[c].n + 1 \in DOMAIN lastEval[c].out
                            /\ wire = write(lastEval[c].out[sent[c].n + 1]))
           sentNow == [sent[c] EXCEPT !.n = @ + 1,
                                      !.asEvaluated = @ /\ kept] IN
       IF Tail(pending[c]) /= <<>>
       THEN /\ pending' = [pending EXCEPT ![c] = Tail(pending[c])]
            /\ sent' = [sent EXCEPT ![c] = sentNow]
            /\ UNCHANGED <<pc, data, config, data_flag, config_flag, requests, idx, exit,
                           lastEval, lastSet, done, handled>>
       ELSE Proceed(c, sentNow)
    /\ UNCHANGED <<codec, call, rdb, stream, replication_info, now, reads, wfails, parsed, replyWriteFailed>>

\* The awaited write_async completes with an I/O error.  In handle_request the `?`
\* returns it to the loop, which writes it as a SimpleError like any other error;
\* the result of writing a SimpleError is dropped (`let _ =`).
WriteFail(c) ==
    /\ pc[c] \in WritePcs
    /\ pending[c] /= <<>>
    /\ wfails < MaxWriteFails
    /\ wfails' = wfails + 1
    /\ LET sentNow == [sent[c] EXCEPT !.failed = TRUE] IN
       IF pc[c] = "write_reply"
       THEN /\ pc' = [pc EXCEPT ![c] = "write_error"]
            /\ pending' = [pending EXCEPT ![c] = error_reply("IOError", "", 0)]
            /\ sent' = [sent EXCEPT ![c] = sentNow]
            /\ replyWriteFailed' = [replyWriteFailed EXCEPT ![c] = TRUE]
            /\ UNCHANGED <<data, config, data_flag, config_flag, requests, idx, exit,
                           lastEval, lastSet, done, handled>>
       ELSE /\ Proceed(c, sentNow)
            /\ UNCHANGED replyWriteFailed
    /\ UNCHANGED <<codec, call, rdb, stream, replication_info, now, reads, parsed>>

\* The wall clock advances by a millisecond.
Tick ==
    /\ now < MaxTime
    /\ now' = now + 1
    /\ UNCHANGED <<codec, call, rdb, stream, data, config, replication_info, data_flag,
                   config_flag, pc,
                   requests, idx, pending, exit, reads, wfails, lastSet, lastEval,
                   sent, done, parsed, handled, replyWriteFailed>>

Next ==
    \/ \E c \in Conns : \E b \in DOMAIN Buffers : ReadBytes(c, b)
    \/ \E c \in Conns : ReadEof(c)
    \/ \E c \in Conns : ReadError(c)
    \/ \E c \in Conns : WriteOk(c)
    \/ \E c \in Conns : WriteFail(c)
    \/ Tick

Spec == Init /\ [][Next]_vars

(***************************************************************************)
(* One connection whose client sends a fixed sequence of frames, read by   *)
(* the loop in pieces of any size: stream.read(&mut input_buf) returns     *)
(* between 1 byte and the whole of what is left, up to the buffer's size.  *)
(***************************************************************************)
Min(a, b) == IF a < b THEN a ELSE b

\* The bytes of the stream from position pos, k of them.
Piece(st, k) == SubSeq(st.bytes, st.pos + 1, st.pos + k)

\* stream.read returns the next k bytes the client sent.
StreamRead(c, k) ==
    /\ pc[c] = "read"
    /\ k \in 1..Min(INPUT_BUF_LEN, Len(stream[c].bytes) - stream[c].pos)
    /\ \E bytes \in {Piece(stream[c], k)} :
       \E p \in {parse_commands(bytes, now)} :
       \E vs \in {get_values(bytes)} :
       \E ahead \in {LeadingCommands(bytes)} :
         /\ Received(c, p, vs, ahead)
         /\ stream' = [stream EXCEPT
                         ![c].pos = @ + k,
                         ![c].aligned = /\ @
                                        /\ stream[c].pos \in stream[c].ends
                                        /\ stream[c].pos + k \in stream[c].ends]
    /\ UNCHANGED <<codec, call, rdb, reads, replication_info, now, wfails,
                   replyWriteFailed>>

\* The client has sent everything and closes: stream.read returns 0 bytes.
StreamEnd(c) ==
    /\ stream[c].bytes /= <<>>
    /\ stream[c].pos = Len(stream[c].bytes)
    /\ ReadEof(c)

\* What the clients send.
CmdValue(words) == Array([i \in DOMAIN words |-> BulkString(words[i])])
B_xx == <<120, 120>>
Payloads ==
    {B_xx \o Cmd(<<B_PING>>), B_xx \o Cmd(<<B_SET, B_a, B_x>>), B_a}
ClientStreams ==
    {<<CmdValue(<<B_ECHO, payload>>)>> : payload \in Payloads}
        \cup {<<CmdValue(<<B_PING>>), CmdValue(<<B_ECHO, B_a>>)>>,
              <<CmdValue(<<B_SET, B_a, B_x>>), CmdValue(<<B_GET, B_a>>)>>}

InitStream ==
    /\ InitHandler
    /\ codec = NoCodec
    /\ call = NoCall
    /\ rdb = NoRdb
    /\ \E values \in ClientStreams :
          stream = [c \in Conns |-> IF c = "c1" THEN Sends(values) ELSE Sends(<<>>)]

NextStream ==
    \/ \E c \in Conns : \E k \in 1..INPUT_BUF_LEN : StreamRead(c, k)
    \/ \E c \in Conns : StreamEnd(c)
    \/ \E c \in Conns : WriteOk(c)
    \/ \E c \in Conns : WriteFail(c)

SpecStream == InitStream /\ [][NextStream]_vars

(***************************************************************************)
(* The accept loop of main with the connection tasks it spawns: the        *)
(* clients wait in the accept queue, each with the bytes it will send,     *)
(* which arrive whole frames at a time.                                    *)
(* A failed accept prints the error and changes nothing.                   *)
(***************************************************************************)
\* A mutant of task_end_stops_listener: the panic of `.expect` on a read error
\* ends the accept loop, as if handle_requests were awaited in the loop itself.
task_end_stops_listener_on_error(e) == e = "IoError"

\* tokio::spawn: the task runs apart from the accept loop; its return and its
\* panics (`.expect("Error handling message")` on Err, or a panic inside
\* handle_requests) end the task alone, and the JoinHandle is dropped.
task_end_stops_listener(e) == FALSE

Listening == \A c \in Conns : ~task_end_stops_listener(exit[c])

\* listener.accept() returns connection c, and its task is spawned with a clone
\* of the Arc around the one handler.
Accept(c) ==
    /\ Listening
    /\ pc[c] = "pending"
    /\ pc' = [pc EXCEPT ![c] = "read"]
    /\ stream' = [stream EXCEPT ![c].after = {d \in Conns : pc[d] = "closed"}]
    /\ UNCHANGED <<codec, call, rdb, data, config, replication_info, data_flag,
                   config_flag, now, requests, idx, pending, exit, reads, wfails,
                   lastSet, lastEval, sent, done, parsed, handled, replyWriteFailed>>

\* stream.read returns what the client has sent up to the end of one of its frames.
ReadFrames(c) == \E end \in stream[c].ends : StreamRead(c, end - stream[c].pos)

InitAccept ==
    /\ data = EmptyMap
    /\ config = StartConfig
    /\ replication_info = MasterInfo
    /\ data_flag = 0
    /\ config_flag = 0
    /\ now = 0
    /\ pc = [c \in Conns |-> "pending"]
    /\ requests = [c \in Conns |-> <<>>]
    /\ idx = [c \in Conns |-> 0]
    /\ pending = [c \in Conns |-> <<>>]
    /\ exit = [c \in Conns |-> ""]
    /\ reads = 0
    /\ wfails = 0
    /\ lastSet = EmptyMap
    /\ lastEval = [c \in Conns |-> NoEval]
    /\ sent = [c \in Conns |-> NoWrites]
    /\ done = [c \in Conns |-> NoWrites]
    /\ parsed = [c \in Conns |-> NoParse]
    /\ handled = [c \in Conns |-> 0]
    /\ replyWriteFailed = [c \in Conns |-> FALSE]
    /\ codec = NoCodec
    /\ call = NoCall
    /\ rdb = NoRdb
    /\ stream = [c \in Conns |->
                   IF c = "c1"
                   THEN Sends(<<CmdValue(<<B_SET, B_a, B_x>>), CmdValue(<<B_PING>>)>>)
                   ELSE Sends(<<CmdValue(<<B_GET, B_a>>), CmdValue(<<B_GET, B_a>>)>>)]

NextAccept ==
    \/ \E c \in Conns : Accept(c)
    \/ \E c \in Conns : ReadFrames(c)
    \/ \E c \in Conns : StreamEnd(c)
    \/ \E c \in Conns : ReadError(c)
    \/ \E c \in Conns : WriteOk(c)
    \/ \E c \in Conns : WriteFail(c)

SpecAccept == InitAccept /\ [][NextAccept]_vars

(***************************************************************************)
(* The connection tasks on the one worker thread, for progress: both       *)
(* clients send a pipeline of commands, reads and writes on the            *)
(* sockets complete, and the scheduler runs every task that is ready: a    *)
(* task whose awaited write has completed is polled again (weak fairness   *)
(* of its step).  Nothing is assumed about the clients: a read completes   *)
(* when the client has sent something.                                     *)
(***************************************************************************)
Pipelines ==
    [c \in Conns |->
        IF c = "c1"
        THEN <<CmdValue(<<B_SET, B_a, B_x>>), CmdValue(<<B_KEYS, B_a>>),
               CmdValue(<<B_GET, B_a>>)>>
        ELSE <<CmdValue(<<B_GET, B_a>>), CmdValue(<<B_CONFIG, B_GET, B_dir, B_port>>),
               CmdValue(<<B_PING>>)>>]

InitFair ==
    /\ InitHandler
    /\ codec = NoCodec
    /\ call = NoCall
    /\ rdb = NoRdb
    /\ stream = [c \in Conns |-> Sends(Pipelines[c])]

NextFair ==
    \/ \E c \in Conns : ReadFrames(c)
    \/ \E c \in Conns : StreamEnd(c)
    \/ \E c \in Conns : WriteOk(c)

SpecFair ==
    InitFair /\ [][NextFair]_vars /\ \A c \in Conns : WF_vars(WriteOk(c))

(***************************************************************************)
(* RespValue::write, RespParser::get_values and handle_request as          *)
(* functions: a second specification draws their inputs from bounded sets  *)
(* and applies them.                                                       *)
(***************************************************************************)
\* Payloads of simple strings and errors (no CR LF inside; a lone CR or LF may
\* occur), and payloads of bulk strings (any bytes).
SimplePayloads == {<<>>, B_a, <<CR>>, <<LF, 97>>}
BulkPayloads == SimplePayloads \cup {SEPARATOR, <<97, CR, LF, 120>>}
Integers_ == {0, 7, -1, 10, -12}

Leaves ==
    {SimpleString(b) : b \in SimplePayloads} \cup {SimpleError(b) : b \in SimplePayloads}
        \cup {SimpleInteger(i) : i \in Integers_}
        \cup {BulkString(b) : b \in BulkPayloads} \cup {NullBulkString, NullArray}
SmallValues ==
    {NullBulkString, BulkString(<<>>), NullArray, Array(<<>>),
     Array(<<BulkString(B_a)>>), SimpleInteger(-1), SimpleString(<<CR>>)}
RespValues ==
    Leaves \cup {Array(<<>>)} \cup {Array(<<v>>) : v \in Leaves}
        \cup {Array(<<v, w>>) : v, w \in SmallValues}
        \cup {Array(<<Array(<<v, w>>), v>>) : v, w \in {NullArray, Array(<<>>)}}
ValueSeqs ==
    {<<>>} \cup {<<v>> : v \in RespValues} \cup {<<v, w>> : v, w \in SmallValues}
        \cup {<<v, w, v>> : v, w \in {NullBulkString, BulkString(<<>>), Array(<<>>)}}

\* The states a handle_request call is applied to: ConfigGet on the configs that
\* to_config_dict builds, Keys on keyspaces of up to MaxKeys entries in every
\* iteration order, Info on the replication infos of a master and of a slave.
PortConfig == [k \in {B_port} |-> B_6379]
Configs == {StartConfig, PortConfig}
ParamNames == {B_dir, B_port, B_a}
ParamLists ==
    {<<>>} \cup {<<q>> : q \in ParamNames} \cup {<<q, w>> : q, w \in ParamNames}
        \cup {<<B_port, B_a, B_dir>>, <<B_dir, B_dir, B_port>>}
KeyNames == {B_a, B_x, B_y, B_STAR}
Entries == {ValueType(B_x, NoExpiration), ValueType(B_y, 1)}
Keyspaces ==
    UNION {[S -> Entries] : S \in {T \in SUBSET KeyNames : Cardinality(T) <= MaxKeys}}
Patterns == {B_STAR, B_a, <<>>, <<STAR, STAR>>, <<STAR, 97>>}
SlaveInfo ==
    [role |-> "Slave", connected_slaves |-> 0, master_replid |-> <<>>,
     master_repl_offset |-> 0]
Infos ==
    {MasterInfo, SlaveInfo,
     [MasterInfo EXCEPT !.connected_slaves = 3, !.master_repl_offset = 120]}
B_REPLICATION == <<82, 69, 80, 76, 73, 67, 65, 84, 73, 79, 78>>
Sections == {B_replication, B_REPLICATION, B_a, <<>>}

\* The Set requests that parse_commands returns at time t for `SET a x PX <n>`,
\* for the integers n below, evaluated at the same time.
PxValues ==
    {<<ZERO>>, <<ZERO + 1>>, <<ZERO + 2>>, <<ZERO + 1, ZERO, ZERO>>, <<PLUS, ZERO + 5>>,
     <<ZERO, ZERO, ZERO + 7>>, <<MINUS, ZERO + 1>>, <<MINUS, ZERO + 2>>,
     <<MINUS, ZERO + 1, ZERO, ZERO>>}

Call(request, d, cfg, info, t, order) ==
    [NoCall EXCEPT !.stage = "ready", !.request = request, !.d = d, !.cfg = cfg,
                   !.info = info, !.now = t, !.order = order]
Calls ==
    {Call(ConfigGet(ps), EmptyMap, cfg, MasterInfo, 0, <<>>) :
        ps \in ParamLists, cfg \in Configs}
    \cup UNION {{Call(Keys(pat), d, StartConfig, MasterInfo, t, o) :
                    pat \in Patterns, t \in {0, MaxTime}, o \in KeyOrders(d)} :
                 d \in Keyspaces}
    \cup {Call(InfoSome(sec), EmptyMap, StartConfig, info, 0, <<>>) :
            sec \in Sections, info \in Infos}
    \cup {Call(InfoNone, EmptyMap, StartConfig, info, 0, <<>>) : info \in Infos}
    \cup {Call(parse_commands(Cmd(<<B_SET, B_a, B_x, B_PX, n>>), t).requests[1],
               EmptyMap, StartConfig, MasterInfo, t, <<>>) :
            n \in PxValues, t \in {0, MaxTime}}

\* The bytes of one socket read handed to the parsers as they arrive: bulk
\* strings `$<n>CRLF<rest>` for every size and rest below, arrays `*<n>CRLF`
\* followed by well-formed children and at most one malformed one, every proper
\* prefix of a frame, and the values the command parser tells apart.
BulkSizes == {-12, -2, -1, 0, 1, 3}
B_ab == <<97, 98>>
B_xy == <<120, 121>>
BulkRests ==
    {<<>>, B_a, <<CR>>, SEPARATOR, B_ab, B_a \o SEPARATOR, B_FOO, B_FOO \o SEPARATOR,
     B_FOO \o B_xy, B_FOO \o B_xy \o SEPARATOR, SEPARATOR \o B_a \o SEPARATOR,
     B_FOO \o SEPARATOR \o <<COLON, ZERO + 1>> \o SEPARATOR}
BulkInput(n, rest) == <<DOLLAR>> \o to_string(n) \o SEPARATOR \o rest
BulkInputs == {BulkInput(n, rest) : n \in BulkSizes, rest \in BulkRests}

\* A size as it is written and the number it stands for (10^MaxDigits for the
\* sizes beyond MaxDigits digits, which exceed the children of every input).
Size(text, n) == [text |-> text, n |-> n]
B_10_7 == <<ZERO + 1, ZERO, ZERO, ZERO, ZERO, ZERO, ZERO, ZERO>>
B_10_18 == B_10_7 \o <<ZERO, ZERO, ZERO, ZERO, ZERO, ZERO, ZERO, ZERO, ZERO, ZERO, ZERO>>
ArraySizes ==
    {Size(to_string(n), n) : n \in {-12, -2, -1, 0, 1, 2, 3}}
        \cup {Size(<<ZERO, ZERO>> \o to_string(2), 2), Size(B_10_7, Pow10(MaxDigits)),
              Size(B_10_18, Pow10(MaxDigits)), Size(I64_MAX_DIGITS, Pow10(MaxDigits))}
Children ==
    {SimpleString(B_OK), BulkString(B_a), NullBulkString, Array(<<SimpleInteger(1)>>)}
ChildLists == {<<>>} \cup {<<v>> : v \in Children} \cup {<<v, w>> : v, w \in Children}
\* A malformed child and the error its own parse has.
Bad(bytes, err, n) == [bytes |-> bytes, err |-> err, n |-> n]
NoBad == Bad(<<>>, "UnexpectedEnd", 0)
BadChildren ==
    {NoBad,
     Bad(<<63, 120>> \o SEPARATOR, "UnknownStartingByte", 63),
     Bad(<<COLON, 120>> \o SEPARATOR, "IntParseFailure", 0),
     Bad(<<DOLLAR, MINUS, ZERO + 5>> \o SEPARATOR, "BadBulkStringSize", -5),
     Bad(<<STAR, MINUS, ZERO + 5>> \o SEPARATOR, "BadArraySize", -5),
     Bad(<<MINUS, 69, 114, 114>>, "UnexpectedEnd", 0),
     Bad(<<DOLLAR, ZERO + 3>> \o SEPARATOR \o B_ab, "UnexpectedEnd", 0),
     Bad(<<DOLLAR, ZERO + 3>> \o SEPARATOR, "UnexpectedEnd", 0)}
ArrayInput(size, children, bad) ==
    <<STAR>> \o size.text \o SEPARATOR \o write_all_vals(children) \o bad.bytes
ArrayInputs ==
    {ArrayInput(size, children, bad) :
        size \in ArraySizes, children \in ChildLists, bad \in BadChildren}

Frames ==
    {Cmd(<<B_GET, B_a>>), Cmd(<<B_SET, B_a, B_x>>), Cmd(<<B_PING>>),
     write(SimpleString(B_OK)), write(SimpleInteger(1)), write(NullBulkString),
     write(BulkString(SEPARATOR \o B_a)),
     write(Array(<<SimpleString(B_OK), Array(<<BulkString(<<>>)>>)>>))}
SplitFrames == UNION {{SubSeq(f, 1, k) : k \in 1..(Len(f) - 1)} : f \in Frames}

B_ping == <<112, 105, 110, 103>>
B_Ping == <<80, 105, 110, 103>>
B_pInG == <<112, 73, 110, 71>>
B_echo == <<101, 99, 104, 111>>
B_Get == <<71, 101, 116>>
B_config == <<99, 111, 110, 102, 105, 103>>
B_get == <<103, 101, 116>>
B_keys == <<107, 101, 121, 115>>
B_info == <<105, 110, 102, 111>>
B_PINGS == B_PING \o <<83>>
B_PIN == <<80, 73, 78>>
CommandNames ==
    {B_PING, B_ping, B_Ping, B_pInG, B_ECHO, B_echo, B_SET, B_set, B_GET, B_Get,
     B_get, B_CONFIG, B_config, B_KEYS, B_keys, B_INFO, B_info,
     B_FOO, B_PINGS, B_PIN, <<>>, B_a, <<80, 73, 78, 71 + 128>>, <<64, 73, 78, 71>>}
ArgLists ==
    {<<>>, <<BulkString(B_a)>>, <<BulkString(B_a), BulkString(B_x)>>,
     <<BulkString(B_get), BulkString(B_dir)>>, <<SimpleInteger(1)>>,
     <<NullBulkString>>, <<SimpleInteger(1), BulkString(B_a)>>,
     <<BulkString(B_a), BulkString(B_x), BulkString(B_y)>>}
CommandValues ==
    {Array(<<BulkString(name)>> \o args) : name \in CommandNames, args \in ArgLists}
        \cup {SimpleString(B_PING), SimpleError(B_PING), SimpleInteger(1),
              BulkString(B_PING), NullBulkString, NullArray, Array(<<>>)}
        \cup {Array(<<first>> \o args) :
                first \in {SimpleString(B_PING), SimpleInteger(1), NullBulkString,
                           NullArray, Array(<<BulkString(B_PING)>>)},
                args \in ArgLists}
CommandInputs ==
    {write(v) : v \in CommandValues}
        \cup {write(v) \o write(w) :
                v, w \in {Array(<<BulkString(B_ping)>>), Array(<<BulkString(B_FOO)>>),
                          SimpleString(B_PING)}}

\* SET and its options: every spelling of PX and other option names, with option
\* values that are and are not decimal integers of the i64 range, and argument
\* lists of other lengths and types.
B_Px == <<80, 120>>
B_pX == <<112, 88>>
B_EX == <<69, 88>>
OptionNames == {B_PX, B_px, B_Px, B_pX, B_EX, <<80>>, B_PX \o <<88>>, <<>>}
B_100 == <<ZERO + 1, ZERO, ZERO>>
B_1_5 == <<ZERO + 1, 46, ZERO + 5>>
OptionValues ==
    {B_100, <<ZERO>>, <<ZERO + 1>>, <<MINUS, ZERO + 1>>, <<MINUS, ZERO + 2>>,
     <<PLUS, ZERO + 5>>, <<ZERO, ZERO, ZERO + 7>>, <<MINUS, ZERO>>, B_10_7,
     I64_MAX_DIGITS, I64_MIN_DIGITS, <<MINUS>> \o I64_MIN_DIGITS,
     <<>>, B_a, B_1_5, <<ZERO + 1, 97>>, <<32, ZERO + 5>>, <<MINUS>>,
     <<195, 169>>, <<255>>, <<ZERO + 1, 255>>, <<195>>, <<ZERO + 5, 128>>}
SetArgLists ==
    {<<BulkString(B_a), BulkString(B_x), BulkString(o), BulkString(v)>> :
        o \in OptionNames, v \in OptionValues}
    \cup {[i \in 1..4 |-> IF i = k THEN other
                          ELSE BulkString(<<B_a, B_x, B_PX, B_100>>[i])] :
            k \in 1..4, other \in {SimpleInteger(100), NullBulkString, Array(<<>>)}}
    \cup {[i \in 1..2 |-> IF i = k THEN other ELSE BulkString(<<B_a, B_x>>[i])] :
            k \in 1..2, other \in {SimpleInteger(100), NullBulkString}}
    \cup {<<>>, <<BulkString(B_a)>>, <<BulkString(B_a), BulkString(B_x)>>,
          <<BulkString(B_a), BulkString(B_x), BulkString(B_PX)>>,
          <<BulkString(B_a), BulkString(B_x), BulkString(B_PX), BulkString(B_100),
            BulkString(B_y)>>,
          <<SimpleInteger(1), SimpleInteger(1), SimpleInteger(1)>>}
SetInputs ==
    {write(Array(<<BulkString(name)>> \o args)) :
        name \in {B_SET, B_set}, args \in SetArgLists}

\* CONFIG with and without a subcommand and parameters.
B_GETX == B_GET \o <<88>>
ConfigArgLists ==
    {<<>>, <<BulkString(B_GET)>>, <<BulkString(B_get)>>, <<BulkString(B_dir)>>,
     <<SimpleInteger(1)>>, <<NullArray>>}
    \cup {<<BulkString(sub), BulkString(q)>> :
            sub \in {B_GET, B_get, B_Get, B_SET, B_GETX, <<>>, B_dir},
            q \in {B_dir, B_port, B_a, <<>>, B_GET}}
    \cup {<<sub, BulkString(B_dir)>> :
            sub \in {SimpleString(B_GET), SimpleInteger(1), NullBulkString,
                     Array(<<BulkString(B_GET)>>)}}
    \cup {<<BulkString(B_get)>> \o qs :
            qs \in {<<BulkString(B_dir), BulkString(B_port)>>,
                    <<BulkString(B_dir), SimpleInteger(1)>>,
                    <<NullBulkString, BulkString(B_dir)>>,
                    <<SimpleString(B_dir)>>, <<Array(<<>>)>>,
                    <<BulkString(B_a), BulkString(B_a), BulkString(B_dir)>>}}
ConfigInputs ==
    {write(Array(<<BulkString(name)>> \o args)) :
        name \in {B_CONFIG, B_config}, args \in ConfigArgLists}

RawInputs ==
    BulkInputs \cup ArrayInputs \cup SplitFrames \cup CommandInputs \cup SetInputs
        \cup ConfigInputs

InitFunctions ==
    /\ InitHandler
    /\ rdb = NoRdb
    /\ stream = NoStream
    /\ \/ /\ codec \in {[NoCodec EXCEPT !.stage = "values", !.values = vs] :
                          vs \in ValueSeqs}
          /\ call = NoCall
       \/ /\ codec \in {[NoCodec EXCEPT !.stage = "raw", !.bytes = input] :
                          input \in RawInputs}
          /\ call = NoCall
       \/ /\ codec = NoCodec
          /\ call \in Calls

\* Each value is written with RespValue::write into one buffer.
Encode ==
    /\ codec.stage = "values"
    /\ codec' = [codec EXCEPT !.stage = "bytes", !.bytes = write_all_vals(codec.values)]
    /\ UNCHANGED <<handler_vars, call, rdb, stream>>

\* The buffer is parsed: get_values, and next_value for its first value.
Decode ==
    /\ codec.stage = "bytes"
    /\ codec' = [codec EXCEPT !.stage = "parsed",
                              !.first = next_value(codec.bytes),
                              !.result = get_values(codec.bytes)]
    /\ UNCHANGED <<handler_vars, call, rdb, stream>>

\* The bytes of one read are parsed as handle_requests parses them (line 96):
\* parse_commands, with get_values and next_value on the same bytes beside it.
Parse ==
    /\ codec.stage = "raw"
    /\ codec' = [codec EXCEPT !.stage = "read",
                              !.first = next_value(codec.bytes),
                              !.result = get_values(codec.bytes),
                              !.commands = parse_commands(codec.bytes, 0)]
    /\ UNCHANGED <<handler_vars, call, rdb, stream>>

\* handle_request runs up to its write; the loop turns an Err into a SimpleError.
Dispatch ==
    /\ call.stage = "ready"
    /\ LET r == handle_request(call.request, call.d, call.cfg, call.info, 0, 0,
                               call.now, call.order)
       IN  call' = [call EXCEPT !.stage = "done", !.r = r,
                                !.written = IF r.err /= "" THEN error_reply(r.err, "", 0)
                                            ELSE r.out]
    /\ UNCHANGED <<handler_vars, codec, rdb, stream>>

NextFunctions == Encode \/ Decode \/ Parse \/ Dispatch

SpecFunctions == InitFunctions /\ [][NextFunctions]_vars

(***************************************************************************)
(* The RDB decoder as a third specification: create_handler on snapshot    *)
(* files, one action for read_header and one for each turn of its loop,    *)
(* and read_string, read_size and read_database applied to their inputs as *)
(* the tests of rdb_parser.rs apply them.                                  *)
(***************************************************************************)
RdbHeader == B_REDIS \o <<48, 48, 49, 49>>
MetadataEntry == <<TAG_METADATA, 3, 118, 101, 114, TAG_INT8, 7>>
RecordPlain == <<0, 1, 97, 1, 120>>
RecordMillis == <<TAG_MILLIS, 1, 0, 0, 0, 0, 0, 0, 0, 0, 1, 120, 1, 121>>
RecordSeconds == <<TAG_SECONDS, 2, 0, 0, 0, 0, 1, 121, TAG_INT16, 57, 48>>
DatabaseHead == <<0, TAG_HASH_TABLE, 3, 2>>
DatabaseBody == DatabaseHead \o RecordPlain \o RecordMillis \o RecordSeconds
Checksum == <<1, 2, 3, 4, 5, 6, 7, 8>>
EndOfFile == <<TAG_END_OF_FILE>> \o Checksum
GoodFile == RdbHeader \o MetadataEntry \o <<TAG_DATABASE>> \o DatabaseBody \o EndOfFile

Prefixes(f) == {SubSeq(f, 1, k) : k \in 0..Len(f)}

\* Nine-byte headers whose magic differs from REDIS in one byte, and inputs of
\* fewer than nine bytes.
WrongMagics ==
    {[B_REDIS EXCEPT ![i] = 88] : i \in 1..5} \cup {<<114, 101, 100, 105, 115>>}
ShortInputs ==
    {<<72, 69, 76, 76, 79>>, <<72, 69, 76, 76, 79, 48, 48, 49>>, <<88>>}

\* Database sections that differ from DatabaseBody.
OtherDatabases ==
    { <<0, TAG_HASH_TABLE, 1, 0>> \o <<0, 1, 120, 1, 97>>,
      <<0, TAG_HASH_TABLE, 0, 5>>,
      <<64, 0, TAG_HASH_TABLE, 64, 1, 128, 0, 0, 0, 0>> \o RecordSeconds,
      <<0, TAG_HASH_TABLE, 2, 0>> \o RecordPlain \o <<TAG_SECONDS, 1, 0, 0, 0, 0, 1, 97, 1, 121>>,
      <<0, TAG_HASH_TABLE, 2, 0>> \o RecordMillis \o <<TAG_MILLIS, 0, 1, 0, 0, 0, 0, 0, 0, 0, 1, 97, 0>>,
      <<1, TAG_HASH_TABLE, 1, 0>> \o RecordPlain,
      <<0, 0, 1, 0>> \o RecordPlain,
      <<0, TAG_HASH_TABLE, TAG_INT8, 0>> \o RecordPlain,
      <<0, TAG_HASH_TABLE, 1, 0>> \o <<7, 1, 97, 1, 120>>,
      <<0, TAG_HASH_TABLE, 1, 0>> \o <<TAG_HASH_TABLE, 1, 97, 1, 120>>,
      <<0, TAG_HASH_TABLE, 1, 0>> \o <<TAG_MILLIS, 1, 0, 0, 0, 0, 0, 0, 0, 9, 1, 120, 1, 121>>,
      <<0, TAG_HASH_TABLE, 1, 0>> \o <<TAG_SECONDS, 2, 0, 0, 0, TAG_SECONDS, 1, 121, 1, 121>>,
      <<0, TAG_HASH_TABLE, 1, 0>> \o <<0, 1, 97, 195, 1>>,
      <<0, TAG_HASH_TABLE, 1, 0>> \o RecordPlain \o RecordMillis }

\* Database sections written from a list of records [tag, n, sep, key, value]: the
\* tag byte, for the tags 0xfc and 0xfd the number n in 8 or 4 little-endian bytes
\* and the byte sep, then key and value as strings with a one-byte length.
RECURSIVE LittleEndian(_, _)
LittleEndian(n, width) ==
    IF width = 0 THEN <<>> ELSE <<n % 256>> \o LittleEndian(n \div 256, width - 1)
Record(tag, n, sep, key, value) ==
    [tag |-> tag, n |-> n, sep |-> sep, key |-> key, value |-> value]
EncodeRecord(r) ==
    <<r.tag>>
        \o (CASE r.tag = TAG_MILLIS -> LittleEndian(r.n, 8) \o <<r.sep>>
              [] r.tag = TAG_SECONDS -> LittleEndian(r.n, 4) \o <<r.sep>>
              [] OTHER -> <<>>)
        \o <<Len(r.key)>> \o r.key \o <<Len(r.value)>> \o r.value
RECURSIVE EncodeRecords(_)
EncodeRecords(rs) ==
    IF rs = <<>> THEN <<>> ELSE EncodeRecord(Head(rs)) \o EncodeRecords(Tail(rs))
EncodeDatabase(rs) == <<0, TAG_HASH_TABLE, Len(rs), 0>> \o EncodeRecords(rs)

Records ==
    { Record(0, 0, 0, B_a, B_x),
      Record(TAG_MILLIS, 1, 0, B_x, B_y),
      Record(TAG_MILLIS, 300, 0, B_y, B_a),
      Record(TAG_SECONDS, 2, 0, B_y, B_x),
      Record(TAG_SECONDS, 258, 0, B_a, <<>>),
      Record(TAG_MILLIS, 1, 9, B_x, B_y),
      Record(TAG_SECONDS, 2, TAG_SECONDS, B_y, B_x),
      Record(7, 0, 0, B_a, B_x),
      Record(TAG_HASH_TABLE, 0, 0, B_a, B_x) }
RecordLists ==
    {<<>>} \cup {<<r>> : r \in Records} \cup {<<r, q>> : r, q \in Records}
        \cup {<<Record(0, 0, 0, B_x, B_a), r, q>> :
                r \in {Record(TAG_MILLIS, 300, 0, B_y, B_a), Record(7, 0, 0, B_a, B_x)},
                q \in {Record(TAG_SECONDS, 258, 0, B_a, <<>>),
                       Record(TAG_SECONDS, 2, TAG_SECONDS, B_y, B_x)}}

DatabaseInputs ==
    Prefixes(DatabaseBody) \cup OtherDatabases \cup {EncodeDatabase(rs) : rs \in RecordLists}

RdbFiles ==
    Prefixes(GoodFile)
    \cup {GoodFile \o t : t \in {<<7, 7>>, RdbHeader, EndOfFile, <<TAG_DATABASE>>}}
    \cup {m \o <<48, 48, 49, 49>> \o EndOfFile : m \in WrongMagics}
    \cup {m \o <<48, 48, 49>> : m \in WrongMagics}
    \cup ShortInputs
    \cup {B_REDIS \o <<0, 0, 0, 0>> \o EndOfFile,
          RdbHeader \o RdbHeader \o EndOfFile,
          RdbHeader \o MetadataEntry \o RdbHeader \o EndOfFile,
          RdbHeader \o <<TAG_DATABASE>> \o DatabaseBody \o RdbHeader \o EndOfFile,
          RdbHeader \o <<TAG_END_OF_FILE>> \o <<0, 0, 0, 0, 0, 0, 0, 0>>,
          RdbHeader \o <<TAG_END_OF_FILE>> \o <<0, 0, 0, 0, 0, 0, 0>>,
          RdbHeader \o <<TAG_HASH_TABLE>> \o EndOfFile,
          RdbHeader \o <<0>> \o EndOfFile,
          RdbHeader \o MetadataEntry \o <<TAG_INT8, 7>> \o EndOfFile,
          RdbHeader \o MetadataEntry \o MetadataEntry \o EndOfFile}
    \cup {RdbHeader \o <<TAG_DATABASE>> \o d \o EndOfFile : d \in OtherDatabases}
    \cup {RdbHeader \o <<TAG_DATABASE>> \o d \o <<TAG_DATABASE>> \o DatabaseBody
             \o EndOfFile : d \in OtherDatabases}

\* Encoded strings and sizes: every tag byte, followed by each of a few tails.
\* A tag with top bits 10 is followed by tails whose big-endian number of four
\* bytes is small.
LongTail == [i \in 1..261 |-> i % 250]
TailsBE ==
    {<<>>, <<57, 48>>, <<0, 0, 0>>, <<0, 0, 0, 0>>, <<0, 0, 0, 3, 97, 98, 99, 100>>,
     <<0, 0, 0, 9, 1>>, <<0, 0, 1, 4>> \o LongTail, <<3, 97, 98, 99, 100>>,
     <<4>> \o LongTail, <<123>>}
Tails ==
    TailsBE \cup {<<255, 255>>, <<0, 128>>, <<135, 214, 18, 0>>, <<255, 255, 255, 255>>,
                  <<255, 255, 255, 127>>, <<1, 0, 0, 128>>, <<200>>, <<255, 127, 9>>}
EncodedInputs ==
    {<<>>} \cup {<<b>> \o t : b \in (0..255) \ (128..191), t \in Tails}
        \cup {<<b>> \o t : b \in 128..191, t \in TailsBE}

Rdb(kind, input) == [NoRdb EXCEPT !.kind = kind, !.input = input, !.stage = "start"]

InitRdb ==
    /\ InitHandler
    /\ stream = NoStream
    /\ codec = NoCodec
    /\ call = NoCall
    /\ rdb \in {Rdb("create_handler", f) : f \in RdbFiles}
            \cup {Rdb("read_string", e) : e \in EncodedInputs}
            \cup {Rdb("read_size", e) : e \in EncodedInputs}
            \cup {Rdb("read_database", d) : d \in DatabaseInputs}

\* The outcome of a call: the stage "ok" or "err" with the result.
Finished(r) == [rdb EXCEPT !.stage = IF r.ok THEN "ok" ELSE "err", !.res = r,
                           !.pos = IF r.ok THEN r.pos ELSE @,
                           !.db = IF r.ok THEN r.db ELSE @]

\* The reader has gone past the value v.
Past(v) == [rdb EXCEPT !.pos = v.pos, !.res = v, !.variants = Append(@, v.variant)]

\* create_handler after `self.read_header()?` returned h.
after_header(h) == IF h.ok THEN [Past(h) EXCEPT !.stage = "loop"] ELSE Finished(h)

\* create_handler: the match on the result v of read_next_value.
after_value(v) ==
    IF ~v.ok THEN Finished(v)
    ELSE CASE v.variant = "Header" ->
                Finished(RdbErr("InvalidFile", 0, "Multiple file headers"))
           [] v.variant = "MetadataSection" -> Past(v)
           [] v.variant = "Database" -> [Past(v) EXCEPT !.db = v.db]
           [] v.variant = "EndOfFile" -> [Past(v) EXCEPT !.stage = "ok"]

\* create_handler: `self.read_header()?`.
ReadHeader ==
    /\ rdb.kind = "create_handler"
    /\ rdb.stage = "start"
    /\ rdb' = Once(read_header(rdb.input, rdb.pos), after_header)
    /\ UNCHANGED <<handler_vars, codec, call, stream>>

\* create_handler: one turn of the loop, read_next_value and the match on it.
ReadNextValue ==
    /\ rdb.kind = "create_handler"
    /\ rdb.stage = "loop"
    /\ rdb' = Once(read_next_value(rdb.input, rdb.pos), after_value)
    /\ UNCHANGED <<handler_vars, codec, call, stream>>

\* reader.read_string() on an encoded string.
ReadString ==
    /\ rdb.kind = "read_string"
    /\ rdb.stage = "start"
    /\ rdb' = Once(read_string(rdb.input, rdb.pos), Finished)
    /\ UNCHANGED <<handler_vars, codec, call, stream>>

\* reader.read_size() on an encoded size.
ReadSize ==
    /\ rdb.kind = "read_size"
    /\ rdb.stage = "start"
    /\ rdb' = Once(read_size(rdb.input, rdb.pos), Finished)
    /\ UNCHANGED <<handler_vars, codec, call, stream>>

\* reader.read_database() on the body of a database section.
ReadDatabase ==
    /\ rdb.kind = "read_database"
    /\ rdb.stage = "start"
    /\ rdb' = Once(read_database(rdb.input, rdb.pos), Finished)
    /\ UNCHANGED <<handler_vars, codec, call, stream>>

NextRdb == ReadHeader \/ ReadNextValue \/ ReadString \/ ReadSize \/ ReadDatabase

SpecRdb == InitRdb /\ [][NextRdb]_vars

\* create_handler alone, for its termination: a call that can take a step takes
\* it, nothing but the call itself holds it up.
InitDecode ==
    /\ InitHandler
    /\ stream = NoStream
    /\ codec = NoCodec
    /\ call = NoCall
    /\ rdb \in {Rdb("create_handler", f) : f \in RdbFiles}

NextDecode == ReadHeader \/ ReadNextValue

SpecDecode == InitDecode /\ [][NextDecode]_vars /\ WF_vars(NextDecode)

(***************************************************************************)
(* The claims.                                                             *)
(***************************************************************************)
\* The evaluation on c is a Get of a key whose latest Set is s (none in between).
GetAfterSet(c) ==
    /\ lastEval[c].req.cmd = "Get"
    /\ lastEval[c].req.key \in DOMAIN lastEval[c].prior
PriorSet(c) == lastEval[c].prior[lastEval[c].req.key]

\* C1: once SET k v without an expiration option has been evaluated, a later GET k
\* on any connection, with no SET of k in between, is answered with BulkString(v).
C1_GetReturnsLastSet ==
    \A c \in Conns :
        (GetAfterSet(c) /\ ~PriorSet(c).hasPx)
            => /\ lastEval[c].out = <<BulkString(PriorSet(c).value)>>
               /\ lastEval[c].err = ""
               /\ pc[c] = "write_reply" => pending[c] = <<BulkString(PriorSet(c).value)>>

\* A GET is being answered on one connection from the SET of another one.
C1_Witness ==
    \E c \in Conns :
        /\ GetAfterSet(c)
        /\ ~PriorSet(c).hasPx
        /\ PriorSet(c).by /= c
        /\ pc[c] = "write_reply"

\* C2: after SET k v PX d (d >= 0), once the clock has advanced by more than d ms
\* and with no SET of k in between, GET k is answered with NullBulkString and k has
\* no entry in the keyspace after that GET.
C2_ExpiredGetIsNull ==
    \A c \in Conns :
        (GetAfterSet(c) /\ Elapsed(PriorSet(c), lastEval[c].at))
            => /\ lastEval[c].out = <<NullBulkString>>
               /\ lastEval[c].req.key \notin lastEval[c].after
               /\ pc[c] = "write_reply" => pending[c] = <<NullBulkString>>

\* The first GET after the deadline is being answered: it found the entry.
C2_Witness ==
    \E c \in Conns :
        /\ GetAfterSet(c)
        /\ Elapsed(PriorSet(c), lastEval[c].at)
        /\ ~PriorSet(c).probed
        /\ pc[c] = "write_reply"

\* The evaluation on c is a KEYS * that replied with an Array.
KeysStar(c) ==
    /\ lastEval[c].req.cmd = "Keys"
    /\ lastEval[c].req.key = B_STAR
    /\ lastEval[c].out /= <<>>
Listed(c) == Range(lastEval[c].out[1].vals)

\* C3 as stated: after SET k v PX d and once the clock has advanced by more than d
\* ms, k is not listed in the reply to KEYS *, whatever was evaluated in between.
C3_ExpiredKeyNeverListed ==
    \A c \in Conns :
        KeysStar(c) =>
            \A k \in DOMAIN lastEval[c].prior :
                Elapsed(lastEval[c].prior[k], lastEval[c].at)
                    => BulkString(k) \notin Listed(c)

\* C3 amended: after SET k v PX d and once the clock has advanced by more than d
\* ms, k is not listed in the reply to KEYS * provided a GET k has been evaluated
\* after that point (with no SET of k since).
C3_ExpiredKeyNotListedAfterGet ==
    \A c \in Conns :
        KeysStar(c) =>
            \A k \in DOMAIN lastEval[c].prior :
                (Elapsed(lastEval[c].prior[k], lastEval[c].at)
                    /\ lastEval[c].prior[k].probed)
                    => BulkString(k) \notin Listed(c)

\* A KEYS * is being answered after a GET evicted an expired key.
C3_Witness ==
    \E c \in Conns :
        /\ KeysStar(c)
        /\ \E k \in DOMAIN lastEval[c].prior :
              /\ Elapsed(lastEval[c].prior[k], lastEval[c].at)
              /\ lastEval[c].prior[k].probed
        /\ pc[c] = "write_reply"

\* C4: on a connection the requests of a read are evaluated in their order in the
\* bytes, and request i + 1 is evaluated only after the write of the reply to
\* request i has completed, whatever the other connections do.
C4_InArrivalOrder ==
    \A c \in Conns :
        pc[c] \in {"write_reply", "write_error"} =>
            /\ Len(requests[c]) = parsed[c].nvalues
            /\ idx[c] \in 1..Len(requests[c])
            /\ lastEval[c].req = requests[c][idx[c]]
            /\ handled[c] = idx[c]
            /\ sent[c].of = idx[c]
            /\ idx[c] > 1 =>
                  /\ done[c].of = idx[c] - 1
                  /\ done[c].n >= 1 \/ done[c].failed

\* The second request of a batch is being answered, its first one was answered,
\* and the other connection is in the middle of a request of its own.
C4_Witness ==
    \E c \in Conns :
        /\ pc[c] = "write_reply"
        /\ idx[c] = 2
        /\ done[c].of = 1
        /\ done[c].n = 1
        /\ \E o \in Conns \ {c} : pc[o] \in WritePcs

\* C5: for each request of a parsed batch the handler writes one top-level value,
\* the reply or one SimpleError: never two, and never none unless a socket write
\* for that request failed.
C5_OneValuePerRequest ==
    \A c \in Conns :
        /\ sent[c].n <= 1
        /\ done[c].n <= 1
        /\ (done[c].of >= 1 /\ ~done[c].failed) => done[c].n = 1
        /\ pc[c] \in {"write_reply", "write_error"} => Len(pending[c]) = 1
        /\ pc[c] = "write_error" => pending[c][1].t = "SimpleError"

\* A request answered with a SimpleError has been handled and the next request of
\* the batch is being answered.
C5_Witness ==
    \E c \in Conns :
        /\ pc[c] = "write_reply"
        /\ idx[c] = 2
        /\ done[c].of = 1
        /\ done[c].n = 1
        /\ ~done[c].failed
        /\ requests[c][1].cmd = "Keys"

\* C6 as stated: when a read holds several commands and one of them is in error
\* (unknown name, number or type of arguments), every command of the read has been
\* handled, by a reply or an error reply, when the handler reads again.
C6_BatchSurvivesCommandError ==
    \A c \in Conns :
        (pc[c] = "read" /\ parsed[c].nvalues > 0
            /\ parsed[c].err \in {"UnknownRequest", "UnexpectedNumberOfArgs",
                                  "UnexpectedArgumentType"})
            => handled[c] = parsed[c].nvalues

\* C7 as stated: when the bytes of a read fail RESP parsing, the handler writes
\* one SimpleError and goes back to reading; the task does not end there.
C7_RespErrorKeepsConnection ==
    \A c \in Conns :
        parsed[c].err \in {"RespParseError", "Panic"} =>
            \/ /\ pc[c] = "write_parse_error"
               /\ Len(pending[c]) = 1
               /\ pending[c][1].t = "SimpleError"
            \/ pc[c] = "read"
            \/ pc[c] = "closed" /\ exit[c] \in {"Eof", "IoError"}

\* C8 as stated: when the write of a reply fails the connection is terminated and
\* no further write is attempted on it.
C8_WriteFailureTerminates ==
    \A c \in Conns :
        replyWriteFailed[c] => pc[c] = "closed" /\ pending[c] = <<>>

\* C9 as stated: a connection task ends only when a read returns zero bytes or a
\* socket operation fails.
C9_EndsOnlyOnEofOrIoError ==
    \A c \in Conns : pc[c] = "closed" => exit[c] \in {"Eof", "IoError"}

\* C10: whenever a task is suspended at a socket read or write, no borrow of the
\* keyspace or of the config is held, and no borrow_mut has met an outstanding
\* borrow.
C10_NoBorrowAcrossAwait ==
    (\E c \in Conns : pc[c] /= "closed") =>
        /\ data_flag = 0
        /\ config_flag = 0
        /\ \A c \in Conns : exit[c] /= "BorrowPanic"

\* A GET evicts an expired entry while the task that set it is still suspended at
\* the write of its reply.
C10_Witness ==
    \E c, o \in Conns :
        /\ c /= o
        /\ pc[o] = "write_reply"
        /\ lastEval[o].req.cmd = "Set"
        /\ pc[c] = "write_reply"
        /\ GetAfterSet(c)
        /\ lastEval[c].req.key \notin lastEval[c].after
        /\ lastEval[c].req.key \in DOMAIN data \/ lastEval[c].out = <<NullBulkString>>

\* C11: the reply to a GET, a KEYS * or a CONFIG GET is the content the keyspace
\* or the config held at the instant the request was evaluated, and the bytes
\* written are those of that reply, whatever SET another connection runs while the
\* write is pending.
C11_ReplyIsSnapshot ==
    \A c \in Conns :
        /\ sent[c].asEvaluated
        /\ done[c].asEvaluated
        /\ pc[c] = "write_reply" =>
              LET e == lastEval[c] IN
              /\ pending[c] = e.out
              /\ e.req.cmd = "Get" =>
                    IF e.req.key \in DOMAIN e.snap
                    THEN e.out \in {<<NullBulkString>>,
                                    <<BulkString(e.snap[e.req.key].value)>>}
                    ELSE e.out = <<NullBulkString>>
              /\ KeysStar(c) => Listed(c) = {BulkString(k) : k \in DOMAIN e.snap}
              /\ e.req.cmd = "ConfigGet" =>
                    e.out = handle_config_get(e.req.params, e.snap, config, 0, 0).out

\* The reply to a GET is pending while the keyspace already holds another value
\* for the key, set by the other connection after the GET was evaluated.
C11_Witness ==
    \E c \in Conns :
        /\ pc[c] = "write_reply"
        /\ lastEval[c].req.cmd = "Get"
        /\ lastEval[c].req.key \in DOMAIN data
        /\ lastEval[c].req.key \in DOMAIN lastEval[c].snap
        /\ pending[c] = <<BulkString(lastEval[c].snap[lastEval[c].req.key].value)>>
        /\ data[lastEval[c].req.key].value /= lastEval[c].snap[lastEval[c].req.key].value

\* C12 as stated: a GET of k evaluated at a time now with deadline <= now
\* (now = deadline included) replies NullBulkString and removes the entry.
C12_ExpiredAtDeadline ==
    \A c \in Conns :
        (GetAfterSet(c) /\ PriorSet(c).hasPx /\ PriorSet(c).deadline <= lastEval[c].at)
            => /\ lastEval[c].out = <<NullBulkString>>
               /\ lastEval[c].req.key \notin lastEval[c].after

\* C12 amended: a GET of k evaluated at a time now with deadline < now replies
\* NullBulkString and removes the entry; evaluated at now = deadline it replies
\* BulkString(value) and the entry stays.
C12_ExpiredAfterDeadline ==
    \A c \in Conns :
        (GetAfterSet(c) /\ PriorSet(c).hasPx) =>
            /\ PriorSet(c).deadline < lastEval[c].at =>
                  /\ lastEval[c].out = <<NullBulkString>>
                  /\ lastEval[c].req.key \notin lastEval[c].after
            /\ PriorSet(c).deadline = lastEval[c].at =>
                  /\ lastEval[c].out = <<BulkString(PriorSet(c).value)>>
                  /\ lastEval[c].req.key \in lastEval[c].after

\* A GET is being answered that was evaluated at the deadline of its key, after the
\* clock had advanced since the SET.
C12_Witness ==
    \E c \in Conns :
        /\ GetAfterSet(c)
        /\ PriorSet(c).hasPx
        /\ PriorSet(c).deadline = lastEval[c].at
        /\ PriorSet(c).at < lastEval[c].at
        /\ pc[c] = "write_reply"

\* The step evaluates a request of kind cmd on key k.
Evaluates(cmd, k) ==
    \E c \in Conns :
        /\ handled'[c] /= handled[c] \/ reads' /= reads
        /\ pc'[c] \in {"write_reply", "write_error"}
        /\ lastEval'[c].req.cmd = cmd
        /\ lastEval'[c].req.key = k

\* C13: expiration is lazy only.  An entry leaves the keyspace only in a step that
\* evaluates a GET of its key after its deadline, and changes only in a step that
\* evaluates a SET of its key; no other request (PING, ECHO, SET or GET of another
\* key, CONFIG GET, KEYS, INFO) and no clock tick removes or changes it.
C13_OnlyGetEvicts ==
    [][\A k \in DOMAIN data :
          /\ k \notin DOMAIN data' =>
                /\ Evaluates("Get", k)
                /\ data[k].expiration /= NoExpiration
                /\ now > data[k].expiration
          /\ (k \in DOMAIN data' /\ data'[k] /= data[k]) => Evaluates("Set", k)]_vars

\* An entry whose deadline has passed is still stored although a SET of another
\* key, the third request of its batch, was evaluated after that deadline.
C13_Witness ==
    \E k \in DOMAIN data :
        /\ data[k].expiration /= NoExpiration
        /\ \E c \in Conns :
              /\ idx[c] = 3
              /\ lastEval[c].req.cmd = "Set"
              /\ lastEval[c].req.key /= k
              /\ lastEval[c].at > data[k].expiration

\* C14: SET overwrites the whole entry, value and deadline together.  A GET of k
\* whose latest SET had no expiration option and replaced an entry with a deadline
\* replies BulkString of the new value at every time, also after the old deadline;
\* and a GET whose latest SET replaced an expired entry that was still stored
\* replies the new value as long as the new deadline, if any, has not passed.
C14_SetOverwritesDeadline ==
    \A c \in Conns :
        GetAfterSet(c) =>
            /\ (~PriorSet(c).hasPx /\ PriorSet(c).overDeadline /= NoExpiration) =>
                  /\ lastEval[c].out = <<BulkString(PriorSet(c).value)>>
                  /\ lastEval[c].snap[lastEval[c].req.key]
                        = ValueType(PriorSet(c).value, NoExpiration)
            /\ (PriorSet(c).revived /\ ~PastDeadline(PriorSet(c), lastEval[c].at)) =>
                  lastEval[c].out = <<BulkString(PriorSet(c).value)>>

\* A GET is being answered after the deadline of the entry that the latest SET, one
\* without an expiration option, replaced before that deadline.
C14_Witness ==
    \E c \in Conns :
        /\ GetAfterSet(c)
        /\ ~PriorSet(c).hasPx
        /\ PriorSet(c).overDeadline /= NoExpiration
        /\ ~PriorSet(c).revived
        /\ lastEval[c].at > PriorSet(c).overDeadline
        /\ pc[c] = "write_reply"

\* C15: for every RespValue v (simple strings and errors without CR LF inside),
\* parsing the bytes RespValue::write gives for v yields v with an empty remainder;
\* NullBulkString and the empty BulkString, NullArray and the empty Array, have
\* different encodings and parse back to themselves.
C15_RoundTrip ==
    /\ write(NullBulkString) /= write(BulkString(<<>>))
    /\ write(NullArray) /= write(Array(<<>>))
    /\ (codec.stage = "parsed" /\ Len(codec.values) = 1) =>
          /\ codec.bytes = write(codec.values[1])
          /\ codec.first = Ok(codec.values[1], <<>>)

\* An Array holding NullBulkString, the empty BulkString, NullArray and the empty
\* Array side by side has been written and parsed back.
C15_Witness ==
    /\ codec.stage = "parsed"
    /\ codec.values \in {<<Array(<<NullBulkString, BulkString(<<>>)>>)>>,
                         <<Array(<<NullArray, Array(<<>>)>>)>>}
    /\ codec.first.ok
    /\ codec.first.value = codec.values[1]

\* C16: for every sequence v1..vn of values, get_values on the concatenation of
\* their encodings yields <<v1, .., vn>> in order; on the empty input it yields the
\* empty sequence and no error.
C16_SequenceRoundTrip ==
    codec.stage = "parsed" =>
        /\ codec.result.ok
        /\ codec.result.values = codec.values
        /\ codec.values = <<>> => codec.bytes = <<>>

\* Three values written back to back have been parsed.
C16_Witness ==
    /\ codec.stage = "parsed"
    /\ Len(codec.values) = 3
    /\ codec.values[1] /= codec.values[2]
    /\ codec.result.ok
    /\ Len(codec.result.values) = 3

\* The parameters of ps that the config cfg holds, in the order of ps.
PresentParams(ps, cfg) == SelectSeq(ps, LAMBDA q : q \in DOMAIN cfg)

\* C17: the reply to ConfigGet(params) with params non-empty is an Array holding,
\* for each requested parameter present in the config and in the order of the
\* request, BulkString(param) then BulkString(value); absent parameters add
\* nothing, so with none present the reply is the empty Array, not NullArray.
C17_ConfigGetReply ==
    (call.stage = "done" /\ call.request.cmd = "ConfigGet"
        /\ call.request.params /= <<>>) =>
        LET present == PresentParams(call.request.params, call.cfg) IN
        /\ call.r.err = ""
        /\ call.written =
              <<Array([i \in 1..(2 * Len(present)) |->
                         IF i % 2 = 1 THEN BulkString(present[(i + 1) \div 2])
                         ELSE BulkString(call.cfg[present[i \div 2]])])>>
        /\ present = <<>> => call.written = <<Array(<<>>)>>

\* CONFIG GET for parameters of which the config holds none has been answered.
C17_Witness ==
    /\ call.stage = "done"
    /\ call.request.cmd = "ConfigGet"
    /\ Len(call.request.params) = 2
    /\ PresentParams(call.request.params, call.cfg) = <<>>
    /\ call.written = <<Array(<<>>)>>

\* C18: the reply to KEYS * is an Array with one BulkString per entry of the
\* keyspace, each key once and none missing; KEYS with any other pattern gets an
\* error reply; neither changes the keyspace.
C18_KeysReply ==
    (call.stage = "done" /\ call.request.cmd = "Keys") =>
        /\ call.r.data = call.d
        /\ IF call.request.key = B_STAR
           THEN /\ call.r.err = ""
                /\ Len(call.written) = 1
                /\ call.written[1].t = "Array"
                /\ Len(call.written[1].vals) = Cardinality(DOMAIN call.d)
                /\ Range(call.written[1].vals) = {BulkString(k) : k \in DOMAIN call.d}
           ELSE /\ call.r.err = "UnknownRequest"
                /\ Len(call.written) = 1
                /\ call.written[1].t = "SimpleError"

\* KEYS * has been answered on a keyspace of two entries, one of them expired.
C18_Witness ==
    /\ call.stage = "done"
    /\ call.request = Keys(B_STAR)
    /\ Cardinality(DOMAIN call.d) = 2
    /\ \E k \in DOMAIN call.d : is_expired(call.d[k], call.now)
    /\ Len(call.written[1].vals) = 2

\* The lines of the replication report of a master, and lines joined by newlines.
InfoLines(info) ==
    << <<114, 111, 108, 101, 58, 109, 97, 115, 116, 101, 114>>,
       <<109, 97, 115, 116, 101, 114, 95, 114, 101, 112, 108, 105, 100, 58>> \o info.master_replid,
       <<109, 97, 115, 116, 101, 114, 95, 114, 101, 112, 108, 95, 111, 102, 102, 115, 101, 116, 58>> \o NatToDec(info.master_repl_offset),
       <<99, 111, 110, 110, 101, 99, 116, 101, 100, 95, 115, 108, 97, 118, 101, 115, 58>> \o NatToDec(info.connected_slaves) >>
RECURSIVE JoinLines(_)
JoinLines(ls) ==
    IF Len(ls) = 1 THEN ls[1] ELSE ls[1] \o <<10>> \o JoinLines(Tail(ls))

\* C19: INFO with no section or with the section `replication` replies a
\* BulkString: for a master the lines role:master, master_replid:<id>,
\* master_repl_offset:<n>, connected_slaves:<n> joined by single newlines with no
\* trailing newline, for a slave exactly role:slave; INFO with any other section
\* replies NullBulkString.
C19_InfoReply ==
    (call.stage = "done" /\ call.request.cmd = "Info") =>
        /\ call.r.err = ""
        /\ IF ~call.request.some \/ call.request.key = B_replication
           THEN call.written =
                   <<BulkString(IF call.info.role = "Master"
                                THEN JoinLines(InfoLines(call.info))
                                ELSE <<114, 111, 108, 101, 58, 115, 108, 97, 118, 101>>)>>
           ELSE call.written = <<NullBulkString>>

\* INFO replication has been answered by a master with 3 connected slaves.
C19_Witness ==
    /\ call.stage = "done"
    /\ call.request = InfoSome(B_replication)
    /\ call.info.role = "Master"
    /\ call.info.connected_slaves = 3
    /\ call.written /= <<>>
    /\ call.written[1].t = "BulkString"

\* C20: no request changes the config mapping or the replication info: in every
\* state both equal their startup values, every CONFIG GET or INFO reply is the
\* one computed from the startup values, and two connections that evaluated the
\* same CONFIG GET or INFO request got the same reply.
C20_ConfigAndInfoFixed ==
    /\ config = StartConfig
    /\ replication_info = MasterInfo
    /\ \A c \in Conns :
          lastEval[c].req.cmd \in {"ConfigGet", "Info"} =>
              /\ lastEval[c].err = ""
              /\ lastEval[c].out =
                    handle_request(lastEval[c].req, EmptyMap, StartConfig, MasterInfo,
                                   0, 0, lastEval[c].at, <<>>).out
    /\ \A c, e \in Conns :
          (/\ lastEval[c].req.cmd \in {"ConfigGet", "Info"}
           /\ lastEval[c].req = lastEval[e].req) => lastEval[c].out = lastEval[e].out

\* An INFO is answered after the CONFIG GET of the same batch, on a server whose
\* keyspace a SET of the other connection has filled.
C20_Witness ==
    \E c \in Conns :
        /\ lastEval[c].req.cmd = "Info"
        /\ lastEval[c].out /= <<>>
        /\ idx[c] = 4
        /\ requests[c][3].cmd = "ConfigGet"
        /\ \E k \in DOMAIN data : lastSet[k].by /= c

\* create_handler has run read_header on its input.
HeaderRead == rdb.kind = "create_handler" /\ rdb.stage /= "start"
Magic(input) == SubSeq(input, 1, 5)

\* C21 as stated: the decoder goes past the header only if the first 5 bytes are
\* REDIS, and an input with any other first 5 bytes fails with NotRedisFile.
C21_OtherMagicIsNotRedisFile ==
    HeaderRead =>
        /\ rdb.stage \in {"loop", "ok"} => Magic(rdb.input) = B_REDIS
        /\ (Len(rdb.input) >= 5 /\ Magic(rdb.input) /= B_REDIS) =>
              (rdb.stage = "err" /\ rdb.res.err = "NotRedisFile")

\* C21: the decoder goes past the header only if the input has at least 9 bytes
\* and the first 5 are REDIS, and it keeps the next 4 as the version; an input of
\* at least 9 bytes with other first 5 bytes fails with NotRedisFile, an input of
\* fewer than 9 bytes fails with IOError whatever its bytes; neither yields a
\* keyspace.
C21_OtherMagicOfFullHeader ==
    HeaderRead =>
        /\ rdb.stage \in {"loop", "ok"} =>
              (Len(rdb.input) >= 9 /\ Magic(rdb.input) = B_REDIS)
        /\ (rdb.stage = "loop" /\ rdb.variants = <<"Header">>) =>
              rdb.res.bytes = SubSeq(rdb.input, 6, 9)
        /\ (Len(rdb.input) >= 9 /\ Magic(rdb.input) /= B_REDIS) =>
              (rdb.stage = "err" /\ rdb.res.err = "NotRedisFile" /\ rdb.db = EmptyMap)
        /\ Len(rdb.input) < 9 =>
              (rdb.stage = "err" /\ rdb.res.err = "IOError" /\ rdb.db = EmptyMap)

\* A file whose magic differs from REDIS in its last byte only, with a full header
\* and an end-of-file section, has been refused.
C21_Witness ==
    /\ HeaderRead
    /\ Len(rdb.input) > 9
    /\ SubSeq(rdb.input, 1, 4) = SubSeq(B_REDIS, 1, 4)
    /\ rdb.input[5] /= B_REDIS[5]
    /\ rdb.res.err = "NotRedisFile"

\* C22 as stated: when a second file header (REDIS and a version) stands where
\* create_handler reads the next section, decoding fails with
\* InvalidFile("Multiple file headers").
C22_SecondHeaderIsInvalidFile ==
    (/\ rdb.kind = "create_handler"
     /\ rdb.stage = "err"
     /\ rdb.pos >= 9
     /\ Len(rdb.input) >= rdb.pos + 9
     /\ SubSeq(rdb.input, rdb.pos + 1, rdb.pos + 5) = B_REDIS) =>
        (rdb.res.err = "InvalidFile" /\ rdb.res.text = "Multiple file headers")

\* What a list of records decodes to: an UnexpectedByte error at the first record
\* with a tag other than 0x00, 0xfc, 0xfd or with a byte other than 0x00 after
\* the number, and otherwise one entry per record, a later record of a key
\* replacing an earlier one.  The deadline is in milliseconds since UNIX_EPOCH.
RecordError(r) ==
    IF r.tag \notin {0, TAG_MILLIS, TAG_SECONDS} THEN r.tag
    ELSE IF r.tag /= 0 /\ r.sep /= 0 THEN r.sep
    ELSE -1
Deadline(r) ==
    CASE r.tag = TAG_MILLIS -> r.n
      [] r.tag = TAG_SECONDS -> 1000 * r.n
      [] OTHER -> NoExpiration
FirstError(rs) ==
    IF \E i \in DOMAIN rs : RecordError(rs[i]) >= 0
    THEN RecordError(rs[CHOOSE i \in DOMAIN rs :
                           /\ RecordError(rs[i]) >= 0
                           /\ \A j \in 1..(i - 1) : RecordError(rs[j]) < 0])
    ELSE -1
LastOf(rs, k) == rs[CHOOSE i \in DOMAIN rs : rs[i].key = k /\ \A j \in DOMAIN rs : rs[j].key = k => j <= i]
Stored(rs) ==
    [k \in {rs[i].key : i \in DOMAIN rs} |->
        [value |-> LastOf(rs, k).value, expiration |-> Deadline(LastOf(rs, k))]]

\* C23: read_database on a section of records stores one entry per record: tag
\* 0x00 gives no deadline, tag 0xfc the deadline UNIX_EPOCH + N ms with N the next
\* 8 bytes little-endian, tag 0xfd UNIX_EPOCH + N s with N the next 4 bytes
\* little-endian; a byte other than 0x00 after the number of a 0xfc or 0xfd record
\* and any other record tag fail with UnexpectedByte carrying that byte.
C23_DatabaseRecords ==
    (rdb.kind = "read_database" /\ rdb.stage /= "start") =>
        \A rs \in RecordLists :
            rdb.input = EncodeDatabase(rs) =>
                IF FirstError(rs) >= 0
                THEN /\ rdb.stage = "err"
                     /\ rdb.res.err = "UnexpectedByte"
                     /\ rdb.res.b = FirstError(rs)
                ELSE /\ rdb.stage = "ok"
                     /\ rdb.res.db = Stored(rs)
                     /\ rdb.pos = Len(rdb.input)
                     /\ (\A i, j \in DOMAIN rs : i /= j => rs[i].key /= rs[j].key) =>
                            Cardinality(DOMAIN rdb.res.db) = Len(rs)

\* A section of three records, one of each tag, has been decoded: one entry has no
\* deadline, one the deadline 300 ms and one the deadline 258 s.
C23_Witness ==
    /\ rdb.kind = "read_database"
    /\ rdb.stage = "ok"
    /\ Cardinality(DOMAIN rdb.res.db) = 3
    /\ \E k \in DOMAIN rdb.res.db : rdb.res.db[k].expiration = NoExpiration
    /\ \E k \in DOMAIN rdb.res.db : rdb.res.db[k].expiration = 300
    /\ \E k \in DOMAIN rdb.res.db : rdb.res.db[k].expiration = 258000

\* The bytes are the decimal text of v: an optional `-`, then digits with no
\* leading zero, whose value is the magnitude of v.
IsDecimalOf(bytes, v) ==
    LET digits == IF v < 0 THEN Tail(bytes) ELSE bytes IN
    /\ bytes /= <<>>
    /\ v < 0 => Head(bytes) = MINUS
    /\ digits /= <<>>
    /\ \A i \in DOMAIN digits : IsDigit(digits[i])
    /\ Len(digits) > 1 => digits[1] /= ZERO
    /\ DigitsValue(digits, 0) = (IF v < 0 THEN -v ELSE v)

\* The signed value of 2 and of 4 little-endian bytes at input[2..].
Int16At(input) ==
    LET u == input[2] + 256 * input[3] IN IF u >= 32768 THEN u - 65536 ELSE u
Int32At(input) ==
    LET low == input[2] + 256 * input[3] + 65536 * input[4]
                   + 16777216 * (input[5] % 128)
    IN  IF input[5] >= 128 THEN (low - 1073741824) - 1073741824 ELSE low

\* C24: in read_string the tag 0xC0 decodes the next byte as an unsigned 8-bit
\* integer, 0xC1 the next 2 bytes as a little-endian signed 16-bit integer, 0xC2
\* the next 4 bytes as a little-endian signed 32-bit integer, each returned as its
\* decimal text; every other tag with top two bits 11 fails with
\* UnknownStartingByte.
C24_IntegerStrings ==
    (rdb.kind = "read_string" /\ rdb.stage /= "start" /\ rdb.input /= <<>>
        /\ rdb.input[1] >= 192) =>
        LET tag == rdb.input[1]
            width == CASE tag = 192 -> 1 [] tag = 193 -> 2 [] tag = 194 -> 4 [] OTHER -> 0
        IN  IF width = 0
            THEN rdb.stage = "err" /\ rdb.res.err = "UnknownStartingByte" /\ rdb.res.b = tag
            ELSE IF Len(rdb.input) < 1 + width
            THEN rdb.stage = "err" /\ rdb.res.err = "IOError"
            ELSE /\ rdb.stage = "ok"
                 /\ rdb.pos = 1 + width
                 /\ IsDecimalOf(rdb.res.bytes,
                                CASE width = 1 -> rdb.input[2]
                                  [] width = 2 -> Int16At(rdb.input)
                                  [] width = 4 -> Int32At(rdb.input))

\* The tag 0xC1 has been decoded to the text of a negative number.
C24_Witness ==
    /\ rdb.kind = "read_string"
    /\ rdb.stage = "ok"
    /\ rdb.input[1] = 193
    /\ Head(rdb.res.bytes) = MINUS
    /\ Len(rdb.res.bytes) > 1

\* The size that the tag byte and the bytes after it encode, and the number of
\* bytes of the encoding (0 when the input ends inside it).
SizeForm(input) == input[1] \div 64
SizeBytes(input) ==
    LET width == CASE SizeForm(input) = 0 -> 1 [] SizeForm(input) = 1 -> 2 [] OTHER -> 5
    IN  IF Len(input) >= width THEN width ELSE 0
SizeValue(input) ==
    CASE SizeForm(input) = 0 -> input[1]
      [] SizeForm(input) = 1 -> (input[1] - 64) * 256 + input[2]
      [] SizeForm(input) = 2 ->
            16777216 * input[2] + 65536 * input[3] + 256 * input[4] + input[5]

\* C25: a tag with top bits 00 gives its low six bits; 01 gives the low six bits
\* times 256 plus the next byte; 10 gives the next 4 bytes as a big-endian number,
\* whatever the low six bits; 11 is an error in read_size; read_string reads
\* exactly that number of raw bytes after the encoding for 00, 01 and 10.
C25_Lengths ==
    (rdb.kind \in {"read_size", "read_string"} /\ rdb.stage /= "start"
        /\ rdb.input /= <<>>) =>
        IF SizeForm(rdb.input) = 3
        THEN rdb.kind = "read_size" =>
                /\ rdb.stage = "err"
                /\ rdb.res.err = "UnknownStartingByte"
                /\ rdb.res.b = rdb.input[1]
        ELSE IF SizeBytes(rdb.input) = 0
        THEN rdb.stage = "err" /\ rdb.res.err = "IOError"
        ELSE IF rdb.kind = "read_size"
        THEN /\ rdb.stage = "ok"
             /\ rdb.res.n = SizeValue(rdb.input)
             /\ rdb.pos = SizeBytes(rdb.input)
        ELSE IF Len(rdb.input) < SizeBytes(rdb.input) + SizeValue(rdb.input)
        THEN rdb.stage = "err" /\ rdb.res.err = "IOError"
        ELSE /\ rdb.stage = "ok"
             /\ rdb.res.bytes = SubSeq(rdb.input, SizeBytes(rdb.input) + 1,
                                       SizeBytes(rdb.input) + SizeValue(rdb.input))
             /\ rdb.pos = SizeBytes(rdb.input) + SizeValue(rdb.input)

\* read_string has read 260 raw bytes after a two-byte length, leaving one byte.
C25_Witness ==
    /\ rdb.kind = "read_string"
    /\ rdb.stage = "ok"
    /\ SizeForm(rdb.input) = 1
    /\ Len(rdb.res.bytes) = 260
    /\ rdb.pos = Len(rdb.input) - 1

\* create_handler has returned, or is in its loop.
Decoding == rdb.kind = "create_handler"
Returned == rdb.stage \in {"ok", "err"}

\* A keyspace is returned only from behind an 0xFF section with its 8 checksum
\* bytes, all inside the input; the bytes behind it play no part (a file that
\* starts with GoodFile decodes as GoodFile does); an Err carries no keyspace.
C26_OnlyAfterEndOfFile ==
    Decoding =>
        /\ rdb.stage = "ok" =>
              /\ rdb.pos >= 9 + 9
              /\ rdb.pos <= Len(rdb.input)
              /\ rdb.input[rdb.pos - 8] = TAG_END_OF_FILE
              /\ rdb.variants[Len(rdb.variants)] = "EndOfFile"
              /\ \A i \in 1..(Len(rdb.variants) - 1) : rdb.variants[i] /= "EndOfFile"
        /\ (rdb.stage = "ok" /\ Len(rdb.input) >= Len(GoodFile)
              /\ SubSeq(rdb.input, 1, Len(GoodFile)) = GoodFile) =>
              (rdb.pos = Len(GoodFile) /\ DOMAIN rdb.db = {B_a, B_x, B_y})
        /\ rdb.stage = "err" => ~rdb.res.ok
        /\ (Returned /\ \A i \in DOMAIN rdb.input : rdb.input[i] /= TAG_END_OF_FILE) =>
              rdb.stage = "err"

\* Every turn of the loop consumes input or returns, and a section tag other
\* than 0xFA, 0xFE, 0xFF returns UnknownStartingByte.
C26_LoopStep ==
    (Decoding /\ rdb' /= rdb) =>
        /\ rdb'.pos > rdb.pos \/ rdb'.stage = "err"
        /\ rdb'.pos <= Len(rdb.input)
        /\ (/\ rdb.stage = "loop"
            /\ rdb.pos < Len(rdb.input)
            /\ rdb.input[rdb.pos + 1] \notin {TAG_METADATA, TAG_DATABASE, TAG_END_OF_FILE}) =>
              /\ rdb'.stage = "err"
              /\ rdb'.res.err = "UnknownStartingByte"
              /\ rdb'.res.b = rdb.input[rdb.pos + 1]
        /\ (rdb.stage = "loop" /\ rdb.pos = Len(rdb.input)) =>
              (rdb'.stage = "err" /\ rdb'.res.err = "IOError")

\* C26: RDB decoding terminates on every input; it returns a keyspace only when
\* it reaches an 0xFF section followed by 8 checksum bytes, whatever their value,
\* and reads nothing behind it; an input that ends before such a section and a
\* section tag other than 0xFA, 0xFE, 0xFF give an error and no keyspace.
C26_Terminates ==
    /\ []C26_OnlyAfterEndOfFile
    /\ [][C26_LoopStep]_vars
    /\ <>Returned

\* A keyspace of three entries has been returned for a file with bytes behind its
\* end-of-file section.
C26_Witness ==
    /\ Decoding
    /\ rdb.stage = "ok"
    /\ rdb.pos < Len(rdb.input)
    /\ Cardinality(DOMAIN rdb.db) = 3


(***************************************************************************)
(* C27.  The outcome of `$<n>CRLF<rest>` by the table of the bulk string   *)
(* rule, on the size n and the bytes that follow the header.               *)
(***************************************************************************)
BulkOutcome(n, rest) ==
    IF n = -1 THEN Ok(NullBulkString, rest)
    ELSE IF n < -1 THEN Err("BadBulkStringSize", n)
    ELSE IF Len(rest) < n + 2 THEN Err("UnexpectedEnd", 0)
    ELSE IF SubSeq(rest, n + 1, n + 2) = SEPARATOR
    THEN Ok(BulkString(SubSeq(rest, 1, n)), SubSeq(rest, n + 3, Len(rest)))
    ELSE Err("BadBulkStringSize", n)

SameOutcome(r, e) ==
    /\ r.ok = e.ok
    /\ r.value = e.value
    /\ r.err = e.err
    /\ r.n = e.n

\* C27: parsing a bulk string `$<n>CRLF...` has exactly these outcomes: n = -1
\* gives NullBulkString, n < -1 gives BadBulkStringSize(n), n >= 0 with n bytes and
\* CRLF gives the BulkString of the n bytes, n >= 0 with at least n+2 bytes and no
\* CRLF at n gives BadBulkStringSize(n), n >= 0 with fewer than n+2 bytes
\* (0 or 1 bytes included) gives UnexpectedEnd; no input fails any other way.
C27_BulkStringOutcomes ==
    \A n \in BulkSizes, rest \in BulkRests :
        (codec.stage = "read" /\ codec.bytes = BulkInput(n, rest)) =>
            SameOutcome(codec.first, BulkOutcome(n, rest))

\* What the parser does instead: the table holds whenever at least two bytes
\* follow the header or n < 0, and with 0 or 1 bytes after the header of a size
\* n >= 0 the parse panics.
C27_BulkStringOutcomesOrPanic ==
    \A n \in BulkSizes, rest \in BulkRests :
        (codec.stage = "read" /\ codec.bytes = BulkInput(n, rest)) =>
            IF n >= 0 /\ Len(rest) < 2
            THEN codec.first.err = "Panic"
            ELSE SameOutcome(codec.first, BulkOutcome(n, rest))

C27_Witness ==
    /\ codec.stage = "read"
    /\ codec.bytes = BulkInput(3, <<>>)
    /\ codec.first.err = "Panic"


(***************************************************************************)
(* C28.  The outcome of `*<n>CRLF` followed by well-formed children and at *)
(* most one malformed child, by the array rule.                            *)
(***************************************************************************)
ArrayOutcome(size, children, bad) ==
    IF size.n = -1 THEN Ok(NullArray, write_all_vals(children) \o bad.bytes)
    ELSE IF size.n < -1 THEN Err("BadArraySize", size.n)
    ELSE IF size.n <= Len(children)
    THEN Ok(Array(SubSeq(children, 1, size.n)),
            write_all_vals(SubSeq(children, size.n + 1, Len(children))) \o bad.bytes)
    ELSE Err(bad.err, bad.n)

\* C28: parsing an array `*<n>CRLF...`: n = -1 gives NullArray, n < -1 gives
\* BadArraySize(n), n >= 0 parses exactly n children in order and returns the
\* bytes after the n-th child as remainder; when a child fails (the input ending
\* before the n-th child included, which is UnexpectedEnd) the array parse fails
\* with that same error and yields no partial array.
C28_ArrayOutcomes ==
    \A size \in ArraySizes, children \in ChildLists, bad \in BadChildren :
        (codec.stage = "read" /\ codec.bytes = ArrayInput(size, children, bad)) =>
            codec.first = ArrayOutcome(size, children, bad)

\* What the parser does instead: the rule holds except that a size beyond
\* isize::MAX / 24 panics in Vec::with_capacity before any child is read, and
\* that a child cut right after a bulk string header panics.
C28_ArrayOutcomesOrPanic ==
    \A size \in ArraySizes, children \in ChildLists, bad \in BadChildren :
        (codec.stage = "read" /\ codec.bytes = ArrayInput(size, children, bad)) =>
            IF \/ size.text \in {B_10_18, I64_MAX_DIGITS}
               \/ /\ size.n > Len(children)
                  /\ bad.bytes = <<DOLLAR, ZERO + 3>> \o SEPARATOR
            THEN codec.first.err = "Panic"
            ELSE codec.first = ArrayOutcome(size, children, bad)

C28_Witness ==
    /\ codec.stage = "read"
    /\ codec.bytes = ArrayInput(Size(B_10_18, Pow10(MaxDigits)), <<>>, NoBad)
    /\ codec.first.err = "Panic"

\* The sizes beyond MaxDigits digits that the allocation admits go on to the
\* children, and the input ends before them.
C28_WitnessLargeSize ==
    /\ codec.stage = "read"
    /\ codec.bytes = ArrayInput(Size(B_10_7, Pow10(MaxDigits)),
                                <<SimpleString(B_OK)>>, NoBad)
    /\ codec.first = Err("UnexpectedEnd", 0)


(***************************************************************************)
(* C29.  The first part of a frame split across two reads, as the bytes of *)
(* one read given to parse_commands.                                       *)
(***************************************************************************)
SplitAt(f, k) == SubSeq(f, 1, k)

UnexpectedEndError(r) ==
    /\ ~r.ok
    /\ r.requests = <<>>
    /\ r.err = "RespParseError"
    /\ r.sub = "UnexpectedEnd"

\* C29: a RESP frame split across two socket reads, at any byte position inside
\* the frame, makes the first read fail with UnexpectedEnd (answered by an error
\* reply); no split position makes the handler fail in another way or stop
\* serving the connection.
C29_SplitFrameIsUnexpectedEnd ==
    \A f \in Frames : \A k \in 1..(Len(f) - 1) :
        (codec.stage = "read" /\ codec.bytes = SplitAt(f, k)) =>
            UnexpectedEndError(codec.commands)

\* What the handler meets instead: UnexpectedEnd, or a panic of the parser when
\* the split leaves 0 or 1 bytes after a bulk string header.
C29_SplitFrameIsUnexpectedEndOrPanic ==
    \A f \in Frames : \A k \in 1..(Len(f) - 1) :
        (codec.stage = "read" /\ codec.bytes = SplitAt(f, k)) =>
            \/ UnexpectedEndError(codec.commands)
            \/ /\ codec.commands.err = "Panic"
               /\ \E h \in 1..k :
                    /\ f[h] = DOLLAR
                    /\ f[h + 1] /= MINUS
                    /\ find(SubSeq(f, h, Len(f))) + h + 1 \in {k, k - 1}

C29_Witness ==
    /\ codec.stage = "read"
    /\ codec.bytes = SplitAt(Cmd(<<B_GET, B_a>>), 18)
    /\ codec.commands.err = "Panic"


(***************************************************************************)
(* C30.  The values the command parser accepts, on the values get_values   *)
(* returns for the bytes of one read.                                      *)
(***************************************************************************)
LowerCase == <<97, 98, 99, 100, 101, 102, 103, 104, 105, 106, 107, 108, 109,
               110, 111, 112, 113, 114, 115, 116, 117, 118, 119, 120, 121, 122>>
UpperCase == <<65, 66, 67, 68, 69, 70, 71, 72, 73, 74, 75, 76, 77,
               78, 79, 80, 81, 82, 83, 84, 85, 86, 87, 88, 89, 90>>
AsciiUpper(b) ==
    IF \E i \in 1..26 : LowerCase[i] = b
    THEN UpperCase[CHOOSE i \in 1..26 : LowerCase[i] = b]
    ELSE b
IgnoringCase(name) == [i \in 1..Len(name) |-> AsciiUpper(name[i])]

CommandNamesKnown == {B_PING, B_ECHO, B_SET, B_GET, B_CONFIG, B_KEYS, B_INFO}
HasName(v) == v.t = "Array" /\ v.vals /= <<>> /\ v.vals[1].t = "BulkString"
NameOf(v) == v.vals[1].v
Named(v) == HasName(v) /\ IgnoringCase(NameOf(v)) \in CommandNamesKnown
Renamed(v) == Array(<<BulkString(IgnoringCase(NameOf(v)))>> \o Tail(v.vals))
IsBarePing(v) == v = Array(<<BulkString(B_ping)>>)

\* C30: the command parser accepts only an Array whose first element is a
\* BulkString; the command name is matched ignoring ASCII case (`ping`, `Ping`,
\* `PING` are the same command); a non-array value, an empty array, a first
\* element that is not a BulkString, and an unknown name all yield UnknownRequest
\* and no Request.
C30_CommandShape ==
    (codec.stage = "read" /\ codec.result.ok /\ codec.result.values /= <<>>) =>
        LET values == codec.result.values IN
        /\ codec.commands.ok =>
              /\ Len(codec.commands.requests) = Len(values)
              /\ \A i \in 1..Len(values) : Named(values[i])
        /\ \A i \in 1..Len(values) :
              (~Named(values[i]) /\ \A j \in 1..(i - 1) : IsBarePing(values[j])) =>
                  /\ ~codec.commands.ok
                  /\ codec.commands.err = "UnknownRequest"
                  /\ codec.commands.requests = <<>>
        /\ (Len(values) = 1 /\ HasName(values[1])) =>
              codec.commands = parse_commands(write(Renamed(values[1])), 0)
        /\ codec.bytes \in {Cmd(<<B_ping>>), Cmd(<<B_Ping>>), Cmd(<<B_PING>>)} =>
              codec.commands.ok /\ codec.commands.requests = <<Ping>>

C30_Witness ==
    /\ codec.stage = "read"
    /\ codec.bytes = Cmd(<<B_pInG>>)
    /\ codec.commands.ok
    /\ codec.commands.requests = <<Ping>>

\* An unknown name after a command that parses: UnknownRequest and no Request.
C30_WitnessUnknownName ==
    /\ codec.stage = "read"
    /\ codec.bytes = Cmd(<<B_ping>>) \o Cmd(<<B_FOO>>)
    /\ codec.commands.err = "UnknownRequest"
    /\ codec.commands.requests = <<>>


(***************************************************************************)
(* C31.  PING, ECHO and GET on the argument lists of one command.          *)
(***************************************************************************)
\* The one value of a read that holds one command of the given name.
OneCommand(name) ==
    /\ codec.stage = "read"
    /\ codec.result.ok
    /\ Len(codec.result.values) = 1
    /\ HasName(codec.result.values[1])
    /\ IgnoringCase(NameOf(codec.result.values[1])) = name
ArgsRead == Tail(codec.result.values[1].vals)
Fails(kind) ==
    /\ ~codec.commands.ok
    /\ codec.commands.err = kind
    /\ codec.commands.requests = <<>>
Yields(request) == codec.commands.ok /\ codec.commands.requests = <<request>>

\* C31: PING yields Ping only with zero arguments; ECHO and GET yield Echo(x) /
\* Get(k) only with exactly one BulkString argument; for these commands any other
\* argument count yields UnexpectedNumberOfArgs and a single argument that is not
\* a BulkString yields UnexpectedArgumentType.
C31_PingEchoGet ==
    /\ OneCommand(B_PING) =>
          IF ArgsRead = <<>> THEN Yields(Ping) ELSE Fails("UnexpectedNumberOfArgs")
    /\ \A name \in {B_ECHO, B_GET} :
          OneCommand(name) =>
              IF Len(ArgsRead) /= 1 THEN Fails("UnexpectedNumberOfArgs")
              ELSE IF ArgsRead[1].t /= "BulkString" THEN Fails("UnexpectedArgumentType")
              ELSE Yields(IF name = B_ECHO THEN Echo(ArgsRead[1].v)
                          ELSE Get(ArgsRead[1].v))

C31_Witness ==
    /\ OneCommand(B_GET)
    /\ Len(ArgsRead) = 2
    /\ ArgsRead[1].t = "BulkString"
    /\ Fails("UnexpectedNumberOfArgs")


(***************************************************************************)
(* C32.  SET on its argument lists.  The deadline of a Set parsed at time  *)
(* 0 is the number of milliseconds that parse_expiration added.            *)
(***************************************************************************)
AllBulk(args) == \A i \in 1..Len(args) : args[i].t = "BulkString"
\* The text is a decimal integer of the i64 range: an optional sign and digits.
IsDecimalI64(text) ==
    LET signed == text /= <<>> /\ text[1] \in {PLUS, MINUS}
        digits == IF signed THEN Tail(text) ELSE text
    IN  /\ digits /= <<>>
        /\ \A i \in 1..Len(digits) : digits[i] >= ZERO /\ digits[i] <= ZERO + 9
        /\ ~Exceeds(StripZeros(digits),
                    IF signed /\ text[1] = MINUS THEN I64_MIN_DIGITS
                    ELSE I64_MAX_DIGITS)
FailsWith(kind, sub) == Fails(kind) /\ codec.commands.sub = sub
YieldsSet(key, value, deadline) ==
    /\ codec.commands.ok
    /\ Len(codec.commands.requests) = 1
    /\ codec.commands.requests[1].cmd = "Set"
    /\ codec.commands.requests[1].key = key
    /\ codec.commands.requests[1].value = value
    /\ (codec.commands.requests[1].expiration /= NoExpiration) = deadline

\* C32: SET with 2 BulkString arguments yields Set with no expiration; with 4
\* BulkString arguments it yields Set with a deadline only when the third is PX
\* in any ASCII case and the fourth parses as a decimal integer; another option
\* name yields UnknownRequest, a non-integer fourth argument yields
\* IntParseFailure, and any argument count other than 2 or 4 yields
\* UnexpectedNumberOfArgs.
C32_SetArguments ==
    OneCommand(B_SET) =>
        LET args == ArgsRead IN
        IF Len(args) \notin {2, 4} THEN Fails("UnexpectedNumberOfArgs")
        ELSE IF ~AllBulk(args) THEN TRUE
        ELSE IF Len(args) = 2 THEN YieldsSet(args[1].v, args[2].v, FALSE)
        ELSE IF IgnoringCase(args[3].v) /= B_PX THEN Fails("UnknownRequest")
        ELSE IF IsDecimalI64(args[4].v) THEN YieldsSet(args[1].v, args[2].v, TRUE)
        ELSE FailsWith("RespParseError", "IntParseFailure")

\* C32 as the parser has it: a fourth argument that is no UTF-8 text yields
\* StringParseFailure, and one that is UTF-8 text but no decimal integer of the
\* i64 range yields IntParseFailure.
C32_SetArgumentsUtf8 ==
    OneCommand(B_SET) =>
        LET args == ArgsRead IN
        IF Len(args) \notin {2, 4} THEN Fails("UnexpectedNumberOfArgs")
        ELSE IF ~AllBulk(args) THEN Fails("UnexpectedArgumentType")
        ELSE IF Len(args) = 2 THEN YieldsSet(args[1].v, args[2].v, FALSE)
        ELSE IF IgnoringCase(args[3].v) /= B_PX THEN Fails("UnknownRequest")
        ELSE IF IsDecimalI64(args[4].v) THEN YieldsSet(args[1].v, args[2].v, TRUE)
        ELSE IF Utf8Valid(args[4].v) THEN FailsWith("RespParseError", "IntParseFailure")
        ELSE FailsWith("RespParseError", "StringParseFailure")

C32_Witness ==
    /\ OneCommand(B_SET)
    /\ Len(ArgsRead) = 4
    /\ AllBulk(ArgsRead)
    /\ ArgsRead[3].v = B_pX
    /\ ArgsRead[4].v = <<ZERO + 1, 255>>
    /\ FailsWith("RespParseError", "StringParseFailure")


(***************************************************************************)
(* C33.  `SET a x PX N` parsed and evaluated at one time: the entry that   *)
(* handle_request stores.  `px` of the request is the integer N.           *)
(***************************************************************************)
SetWithPxDone ==
    /\ call.stage = "done"
    /\ call.request.cmd = "Set"
    /\ call.request.expiration /= NoExpiration
StoredDeadline == call.r.data[call.request.key].expiration
EntryStored == ~call.r.panic /\ call.request.key \in DOMAIN call.r.data

\* C33: for `SET k v PX N` the value N is treated as a non-negative decimal
\* integer: for every N >= 0 the deadline is (current time + N ms), and a
\* negative N never produces a stored entry whose deadline lies N (reinterpreted
\* as an unsigned 64-bit number) milliseconds in the future nor any other failure
\* than an error reply.
C33_PxIsNonNegative ==
    SetWithPxDone =>
        IF call.request.px >= 0
        THEN EntryStored /\ StoredDeadline = call.now + call.request.px
        ELSE ~(/\ EntryStored
               /\ StoredDeadline = call.now + call.request.px + Pow2(U64Bits))

\* What the server does with N < 0: it answers +OK and stores the entry with the
\* deadline (current time + N + 2^64), the width being U64Bits here.
C33_NegativePxIsStored ==
    SetWithPxDone =>
        /\ EntryStored
        /\ call.written = <<SimpleString(B_OK)>>
        /\ StoredDeadline =
              call.now + (IF call.request.px >= 0 THEN call.request.px
                          ELSE call.request.px + Pow2(U64Bits))

C33_Witness ==
    /\ SetWithPxDone
    /\ call.request.px = -1
    /\ call.now = MaxTime
    /\ EntryStored
    /\ StoredDeadline = MaxTime + Pow2(U64Bits) - 1


(***************************************************************************)
(* C34.  CONFIG on its argument lists, and the reply to each ConfigGet     *)
(* that the command parser returns.                                        *)
(***************************************************************************)
ConfigGetReply(request, cfg) ==
    handle_request(request, EmptyMap, cfg, MasterInfo, 0, 0, 0, <<>>).out

\* C34: CONFIG needs at least two arguments (a subcommand and one parameter), so
\* the command parser never produces ConfigGet with an empty parameter list and
\* the NullArray reply for ConfigGet([]) is never sent in answer to bytes received
\* from a client; only the subcommand GET (any ASCII case) is accepted and every
\* parameter must be a BulkString.
C34_ConfigGet ==
    /\ (codec.stage = "read" /\ codec.commands.ok) =>
          \A i \in 1..Len(codec.commands.requests) :
              codec.commands.requests[i].cmd = "ConfigGet" =>
                  /\ codec.commands.requests[i].params /= <<>>
                  /\ \A cfg \in Configs :
                        ConfigGetReply(codec.commands.requests[i], cfg) /= <<NullArray>>
    /\ OneCommand(B_CONFIG) =>
          LET args == ArgsRead IN
          IF Len(args) < 2 THEN Fails("UnexpectedNumberOfArgs")
          ELSE IF args[1].t /= "BulkString" THEN Fails("UnexpectedArgumentType")
          ELSE IF IgnoringCase(args[1].v) /= B_GET THEN Fails("UnknownRequest")
          ELSE IF ~AllBulk(Tail(args)) THEN Fails("UnexpectedArgumentType")
          ELSE Yields(ConfigGet([i \in 1..(Len(args) - 1) |-> args[i + 1].v]))

C34_Witness ==
    /\ OneCommand(B_CONFIG)
    /\ ArgsRead = <<BulkString(B_get)>>
    /\ Fails("UnexpectedNumberOfArgs")


(***************************************************************************)
(* C35.  A read whose bytes parse_commands rejects.                        *)
(***************************************************************************)
\* The connection is answering the failed read with one SimpleError, or has done
\* so (the write was attempted once) and is reading again or has ended there.
OneErrorForTheRead(c) ==
    \/ /\ pc[c] = "write_parse_error"
       /\ Len(pending[c]) = 1
       /\ pending[c][1].t = "SimpleError"
       /\ sent[c].n = 0
    \/ /\ pc[c] = "read" \/ (pc[c] = "closed" /\ exit[c] \in {"Eof", "IoError"})
       /\ done[c].of = 0
       /\ (done[c].n = 1 /\ ~done[c].failed) \/ (done[c].n = 0 /\ done[c].failed)

\* The step is one that connection c takes while it handles a failed read.
HandlesFailedRead(c) ==
    \/ pc[c] = "read" /\ pc'[c] /= "read" /\ parsed'[c].err /= ""
    \/ pc[c] = "write_parse_error" /\ pc'[c] /= "write_parse_error"

\* C35: when the bytes of one socket read fail RESP parsing or command parsing at
\* any position, no command of that read is evaluated: the keyspace after handling
\* the read equals the keyspace before it, and exactly one SimpleError is written
\* for the whole read.
C35_FailedReadIsDropped ==
    /\ [](\A c \in Conns :
            parsed[c].err /= "" => handled[c] = 0 /\ OneErrorForTheRead(c))
    /\ [][\A c \in Conns : HandlesFailedRead(c) => data' = data]_vars

\* What holds: the same, except for the reads on which the RESP parser panics,
\* where the task ends and no SimpleError is written.
C35_FailedReadIsDroppedOrPanic ==
    /\ [](\A c \in Conns :
            parsed[c].err /= "" =>
                /\ handled[c] = 0
                /\ IF parsed[c].err = "Panic"
                   THEN pc[c] = "closed" /\ exit[c] = "Panic" /\ done[c].n = 0
                   ELSE OneErrorForTheRead(c))
    /\ [][\A c \in Conns : HandlesFailedRead(c) => data' = data]_vars

\* A read of SET x y followed by an unknown command has been answered with one
\* SimpleError and x is not stored.
C35_Witness ==
    \E c \in Conns :
        /\ parsed[c].err = "UnknownRequest"
        /\ parsed[c].ahead = 1
        /\ pc[c] = "read"
        /\ done[c].of = 0
        /\ done[c].n = 1
        /\ B_x \notin DOMAIN data


(***************************************************************************)
(* C36.  The payload of a bulk-string argument is not a command.           *)
(***************************************************************************)
\* The request connection c has handed to handle_request is one of the requests
\* that the frames its client sent denote.
EvaluatedWasSent(c) ==
    lastEval[c].req.cmd /= "None" => lastEval[c].req \in stream[c].commands

\* C36: bytes that a client sends as the payload of a bulk-string argument are
\* never evaluated as a command of their own, however the connection's byte stream
\* is divided into socket reads of at most 512 bytes.
C36_PayloadIsNeverACommand == \A c \in Conns : EvaluatedWasSent(c)

\* What holds: while every read has begun and ended where a frame of the client
\* ends, each request evaluated is one the client sent.
C36_WholeFramesAreNotSmuggled ==
    \A c \in Conns : stream[c].aligned => EvaluatedWasSent(c)

\* The client sent one ECHO whose argument carries the bytes of a SET, read
\* in pieces; the SET has been evaluated and its key is stored.
C36_Witness ==
    /\ stream["c1"].commands = {Echo(B_xx \o Cmd(<<B_SET, B_a, B_x>>))}
    /\ ~stream["c1"].aligned
    /\ B_a \in DOMAIN data


(***************************************************************************)
(* C37.  The deadline of SET k v PX N is fixed when its read is parsed.    *)
(***************************************************************************)
\* Request r is a SET with PX N, N >= 0.
SetWithPx(r) == r.cmd = "Set" /\ r.expiration /= NoExpiration /\ r.px >= 0

\* The step is the read on c of a batch that parsed: every SET with PX N in the
\* batch has the deadline (time of the read + N).
DeadlinesSetByRead(c) ==
    (pc[c] = "read" /\ requests'[c] /= <<>>) =>
        \A i \in DOMAIN requests'[c] :
            SetWithPx(requests'[c][i]) =>
                requests'[c][i].expiration = now + requests'[c][i].px

\* While the batch is being handled it does not change, and the request evaluated
\* is the one of the batch.
DeadlinesKeptByLoop(c) ==
    (pc[c] /= "read" /\ requests'[c] /= <<>>) =>
        /\ requests'[c] = requests[c]
        /\ idx'[c] /= idx[c] => lastEval'[c].req = requests[c][idx'[c]]

\* C37: the deadline of SET k v PX N is fixed when the read that contains it is
\* parsed (parse time + N ms), before the earlier commands of the same batch are
\* evaluated and their replies written; so the stored deadline is never later than
\* (time of the keyspace insert + N ms), and every GET k evaluated more than N ms
\* after the insert reports absence.
C37_DeadlineFixedAtParse ==
    /\ [][\A c \in Conns : DeadlinesSetByRead(c) /\ DeadlinesKeptByLoop(c)]_vars
    /\ [](\A k \in DOMAIN lastSet :
            (lastSet[k].hasPx /\ lastSet[k].px >= 0) =>
                /\ lastSet[k].deadline <= lastSet[k].at + lastSet[k].px
                /\ k \in DOMAIN data => data[k].expiration = lastSet[k].deadline)
    /\ [](\A c \in Conns :
            (GetAfterSet(c) /\ Elapsed(PriorSet(c), lastEval[c].at)) =>
                lastEval[c].out = <<NullBulkString>>)

\* A GET is being answered with absence, more than N ms after the insert of a SET
\* that was the second command of its batch and was evaluated after the clock had
\* moved on from the time of the read.
C37_Witness ==
    \E c \in Conns :
        /\ GetAfterSet(c)
        /\ Elapsed(PriorSet(c), lastEval[c].at)
        /\ PriorSet(c).deadline < PriorSet(c).at + PriorSet(c).px
        /\ lastEval[c].out = <<NullBulkString>>
        /\ pc[c] = "write_reply"


(***************************************************************************)
(* C38.  One keyspace for all connections, outliving each of them.         *)
(***************************************************************************)
\* The step is a read error on c: `?` returns it and the task ends.
ReadErrorEnds(c) == pc[c] = "read" /\ pc'[c] = "closed" /\ exit'[c] = "IoError"

\* C38: the keyspace is shared by all connections and outlives each of them: an
\* entry set on connection A is returned by GET on connection B after A has closed,
\* and a read error that ends A's task neither stops the listener from accepting
\* connections nor changes any keyspace entry.
C38_KeyspaceOutlivesConnections ==
    /\ [](\A b \in Conns :
            (/\ GetAfterSet(b)
             /\ ~PriorSet(b).hasPx
             /\ PriorSet(b).by /= b
             /\ PriorSet(b).by \in stream[b].after)
                => lastEval[b].out = <<BulkString(PriorSet(b).value)>>)
    /\ [](\A c \in Conns : pc[c] = "pending" => ENABLED Accept(c))
    /\ [][\A a \in Conns :
            ReadErrorEnds(a) =>
                /\ data' = data
                /\ \A b \in Conns \ {a} : pc'[b] = pc[b] /\ exit'[b] = exit[b]]_vars

\* Connection A stored a key and its task ended on a read error; B was accepted
\* after that and its GET of the key is being answered with the value.
C38_Witness ==
    \E a, b \in Conns :
        /\ a /= b
        /\ pc[a] = "closed"
        /\ exit[a] = "IoError"
        /\ a \in stream[b].after
        /\ GetAfterSet(b)
        /\ PriorSet(b).by = a
        /\ lastEval[b].out = <<BulkString(B_x)>>
        /\ pc[b] = "write_reply"


(***************************************************************************)
(* C39.  Every request of a parsed batch gets its reply.                   *)
(***************************************************************************)
\* Request i of the batch connection c is handling has not been answered yet.
Awaited(c, i) == Len(requests[c]) >= i /\ idx[c] <= i

\* The writes for request i of the batch have completed, none of them failing.
Replied(c, i) == done[c].of = i /\ done[c].n >= 1 /\ ~done[c].failed

\* C39: under fair scheduling of connection tasks and sockets whose reads and
\* writes complete, every request of a successfully parsed batch eventually gets
\* its reply, on every connection, however many other connections are sending
\* requests at the same time.
C39_EveryRequestIsReplied ==
    \A c \in Conns : \A i \in DOMAIN Pipelines[c] : Awaited(c, i) ~> Replied(c, i)

\* A connection has written the reply to the last request of its whole pipeline,
\* read as one batch, while the other connection is in the middle of a batch.
C39_Witness ==
    \E c, d \in Conns :
        /\ c /= d
        /\ Replied(c, Len(Pipelines[c]))
        /\ pc[c] = "read"
        /\ pc[d] \in WritePcs
        /\ Len(requests[d]) > idx[d]

====
